---- MODULE Spec2Model ----
(***************************************************************************)
(* A model of the travel-expense reconciliation service:                   *)
(*   - the itemize handler (backend/app/routers/expenses.py), which parses *)
(*     the line-item provider's raw text, normalizes the candidates,       *)
(*     scales them to the expense amount and corrects the drift;           *)
(*   - the match proposer (backend/app/services/matching.py).              *)
(*                                                                         *)
(* Money is a Python float in the code.  The model keeps every amount as   *)
(* an integer number of mills (1/1000 of a currency unit), so that values  *)
(* finer than the 2-decimal grid exist and round(x, 2) is a real           *)
(* operation; arithmetic on mills is exact.  round(x, 2) resolves an exact *)
(* half-cent tie to the even cent, as Python's round() documents.          *)
(***************************************************************************)
EXTENDS Integers, Sequences, FiniteSets, TLC

VARIABLES
    expenses,           \* table expenses: id -> [category, amount, tagged]
    expense_items,      \* table expense_items, rows in id order
    receipts,           \* ids of the rows of table receipts
    expense_receipts,   \* table expense_receipts: set of link rows
    expense_reports,    \* ids of the rows of table expense_reports
    report_expenses,    \* table report_expenses: set of (report_id, expense_id) rows
    stored_files,       \* the receipt files in the blob container and in UPLOAD_DIR
    sessions,           \* the itemize requests in progress, one database session each
    req,                \* the request the last handler run served
    resp,               \* what that run returned or raised
    trace,              \* what that run did on the way (its log lines)
    match_call,         \* a call of propose_matches: its arguments and its result
    fn_call             \* a call of another function of the services, on its own

vars == <<expenses, expense_items, receipts, expense_receipts, expense_reports,
          report_expenses, stored_files, sessions, req, resp, trace, match_call, fn_call>>

----------------------------------------------------------------------------
(* Bounds of the model *)

\* most objects in the array a provider text holds
MaxItems == 3
\* candidate amounts on the cent grid: 1..MaxCandCents cents
MaxCandCents == 4
\* expense amounts on the cent grid: -1..MaxTotalCents cents
MaxTotalCents == 10

----------------------------------------------------------------------------
(* Arithmetic *)

Abs(x) == IF x < 0 THEN 0 - x ELSE x

\* one cent, in mills
Cent == 10

RECURSIVE SumSeq(_)
SumSeq(s) == IF s = <<>> THEN 0 ELSE Head(s) + SumSeq(Tail(s))

\* the integer nearest to n/d (d > 0), an exact tie going to the even one
RoundHalfEven(n, d) ==
    LET q == n \div d
        r == n % d
    IN  IF 2 * r < d THEN q
        ELSE IF 2 * r > d THEN q + 1
        ELSE IF q % 2 = 0 THEN q ELSE q + 1

\* round(n/d, 2) for a value of n/d mills: the nearest whole number of cents
Round2Ratio(n, d) == RoundHalfEven(n, d * Cent) * Cent

\* round(x, 2)
Round2(x) == Round2Ratio(x, 1)

----------------------------------------------------------------------------
(* The line-item provider's outcome and its raw text.                      *)
(*                                                                         *)
(* A raw text is kept by its structure, not by its characters: how it is   *)
(* laid out (fences, a 'json' label) and what its body is.  A JSON value   *)
(* of a candidate field is a record [k, v]: k says what the provider wrote *)
(* (nothing, null, a number, a numeric string such as "1,250.00", a        *)
(* non-numeric string, the empty string) and v is the number it denotes,   *)
(* in mills.                                                               *)

Absent   == [k |-> "absent", v |-> 0]
Null     == [k |-> "null", v |-> 0]
EmptyStr == [k |-> "emptystr", v |-> 0]
BadStr   == [k |-> "badstr", v |-> 0]
Num(n)   == [k |-> "num", v |-> n]
NumStr(n) == [k |-> "str", v |-> n]

\* a JSON object of the array, by its three amount keys
Obj(d, a, t) == [isdict |-> TRUE, debit |-> d, amount |-> a, total |-> t]
\* an element of the array that is no object (a number, a string, null)
NotObj == [isdict |-> FALSE, debit |-> Absent, amount |-> Absent, total |-> Absent]

\* the shape the provider is asked for: {date, description, debit: number}
Debit(n) == Obj(Num(n), Absent, Absent)

\* bodies
ArrayBody(elems) == [t |-> "array", elems |-> elems, err |-> "absent", near |-> FALSE]
\* a JSON object; err: its "error" member is absent, truthy or falsy;
\* near: the text holds "error" within its first 120 characters
ObjectBody(err, near) == [t |-> "object", elems |-> <<>>, err |-> err, near |-> near]
\* a text opening with '{' that json.loads rejects
BrokenObjectBody(near) == [t |-> "broken_object", elems |-> <<>>, err |-> "absent", near |-> near]
\* a JSON scalar, and text that is no JSON at all
ScalarBody  == [t |-> "scalar", elems |-> <<>>, err |-> "absent", near |-> FALSE]
GarbageBody == [t |-> "garbage", elems |-> <<>>, err |-> "absent", near |-> FALSE]
NoBody      == [t |-> "none", elems |-> <<>>, err |-> "absent", near |-> FALSE]

\* layouts: "plain" BODY; "fenced" ```\nBODY\n```; "fenced_json" ```json\nBODY\n```;
\* "json_label" json: BODY; "fenced_inline" ```BODY``` on one line; "empty" no text
Layouts == {"plain", "fenced", "fenced_json", "json_label", "fenced_inline"}
Text(layout, body) == [layout |-> layout, body |-> body]
EmptyText == Text("empty", NoBody)

\* what extract_invoice_line_items(blob_name) does: it returns a text, raises an
\* Exception (a timeout, an API or credential error), or raises SystemExit
Returned(text) == [kind |-> "text", text |-> text]
RaisesException == [kind |-> "exception", text |-> EmptyText]
RaisesSystemExit == [kind |-> "system_exit", text |-> EmptyText]
\* the provider was not called
NotInvoked == [kind |-> "not_invoked", text |-> EmptyText]

----------------------------------------------------------------------------
(* itemize_expense: the parser *)

\* raw_text: "" unless the call returned (with suppress(Exception))
RawText(outcome) == IF outcome.kind = "text" THEN outcome.text ELSE EmptyText

\* not raw_text
IsEmptyText(text) == text.layout = "empty"

\* raw_text.strip().startswith('{') and '"error"' in raw_text[:120]
LooksLikeEnvelope(text) ==
    /\ text.layout = "plain"
    /\ text.body.t \in {"object", "broken_object"}
    /\ text.body.near

\* (variant: the error flag is not looked at)
IsErrorEnvelope_AnyFlag(text) ==
    /\ text.layout # "empty"
    /\ text.layout = "plain"
    /\ text.body.t = "object"
    /\ text.body.near

\* json.loads(raw_text) gives a dict whose .get("error") is truthy
IsErrorEnvelope(text) ==
    /\ ~IsEmptyText(text)
    /\ LooksLikeEnvelope(text)
    /\ text.body.t = "object"
    /\ text.body.err = "truthy"

\* the text json.loads is given once the fence lines and the label are gone:
\* of ```BODY``` on one line nothing is left
Cleaned(text) == IF text.layout = "fenced_inline" THEN NoBody ELSE text.body

\* parsed_items: the array, or [] for a parse failure or a value that is no list
ParsedItems(text) ==
    LET b == Cleaned(text)
    IN  IF b.t = "array" THEN b.elems ELSE <<>>

----------------------------------------------------------------------------
(* itemize_expense: the normalizer *)

\* Python truthiness of a JSON value: None, 0 and "" are falsy
Truthy(val) == (val.k = "num" /\ val.v # 0) \/ val.k \in {"str", "badstr"}

\* a or b
PyOr(a, b) == IF Truthy(a) THEN a ELSE b

\* it.get("debit") or it.get("amount") or it.get("total")
AmountOf(it) == PyOr(PyOr(it.debit, it.amount), it.total)

\* float(str(amount).replace(",", "").strip()) succeeds
Coerces(val) == val.k \in {"num", "str"}

\* (variant: the amount_f <= 0 test is left out)
Keeps_NonPositive(it) ==
    /\ it.isdict
    /\ LET amount == PyOr(PyOr(it.debit, it.amount), it.total)
       IN  /\ amount.k \notin {"absent", "null", "emptystr"}
           /\ amount.k \in {"num", "str"}

\* the candidate survives lines 311-323
Keeps(it) ==
    /\ it.isdict
    /\ LET amount == AmountOf(it)
       IN  /\ amount.k \notin {"absent", "null", "emptystr"}
           /\ Coerces(amount)
           /\ amount.v > 0

\* norm, by the amounts of its entries
RECURSIVE Normalize(_)
Normalize(items) ==
    IF items = <<>> THEN <<>>
    ELSE (IF Keeps(Head(items)) THEN <<AmountOf(Head(items)).v>> ELSE <<>>)
         \o Normalize(Tail(items))

----------------------------------------------------------------------------
(* itemize_expense: the reconciler *)

\* The amounts are floats.  Of a sum and a total exactly 1% apart the float
\* quotient is 0.01 or a rounding error away from it; everywhere else a
\* rounding error is far too small to move the comparison.  These are the
\* pairs (sum_norm, total_amount) of the amounts the model reconciles, in
\* mills, whose float quotient comes out above 0.01: abs(0.99 - 1.0) / 1.0
\* and abs(1.01 - 1.0) / 1.0 are 0.010000000000000009.
InexactPercent == {<<990, 1000>>, <<1010, 1000>>}

\* total_amount > 0 and sum_norm > 0 and abs(sum_norm - total_amount) / total_amount > 0.01
ScaleApplies(norm, total) ==
    LET sum_norm == SumSeq(norm)
    IN  /\ total > 0
        /\ sum_norm > 0
        /\ \/ 100 * Abs(sum_norm - total) > total
           \/ (100 * Abs(sum_norm - total) = total /\ <<sum_norm, total>> \in InexactPercent)

\* round(it["amount"] * scale, 2) with scale = total_amount / sum_norm
ScaledAmount(amount, total, sum_norm) == Round2Ratio(amount * total, sum_norm)

Scaled(norm, total) ==
    [i \in 1..Len(norm) |-> ScaledAmount(norm[i], total, SumSeq(norm))]

\* (variant: the drift goes to the first item)
DriftIndex_First(items) == 1

\* the item the in-memory drift goes to: norm[-1]
DriftIndex(items) == Len(items)

\* drift = round(total_amount - running, 2); norm[-1] gets it when abs(drift) >= 0.01
WithDrift(items, total) ==
    LET drift == Round2(total - SumSeq(items))
    IN  IF Abs(drift) >= Cent /\ items # <<>>
        THEN [items EXCEPT ![DriftIndex(items)] = Round2(@ + drift)]
        ELSE items

\* items_to_insert
ItemsToInsert(norm, total) ==
    IF ScaleApplies(norm, total) THEN WithDrift(Scaled(norm, total), total) ELSE norm

----------------------------------------------------------------------------
(* The tables *)

\* SELECT ... FROM expense_items WHERE expense_id = :id ORDER BY id
ItemsOf(table, e) == SelectSeq(table, LAMBDA r : r.expense_id = e)

AmountsOf(rows) == [i \in 1..Len(rows) |-> rows[i].amount]

\* DELETE FROM expense_items WHERE expense_id = :id
DeleteItems(table, e) == SelectSeq(table, LAMBDA r : r.expense_id # e)

\* INSERT INTO expense_items, one row per entry, in list order
InsertItems(table, e, amounts) ==
    table \o [i \in 1..Len(amounts) |-> [expense_id |-> e, amount |-> amounts[i]]]

\* the position in the table of rows[-1]["id"], the expense's row of greatest id
LastRowOf(table, e) ==
    CHOOSE i \in 1..Len(table) :
        /\ table[i].expense_id = e
        /\ \A j \in (i + 1)..Len(table) : table[j].expense_id # e

\* (variant: the second pass is left out)
PostInsertDrift_Skipped(table, e, total) == table

\* (variant: the drift is subtracted from the last row)
PostInsertDrift_WrongSign(table, e, total) ==
    LET rows == ItemsOf(table, e)
        final_drift == Round2(total - SumSeq(AmountsOf(rows)))
    IN  IF Abs(final_drift) >= Cent /\ rows # <<>>
        THEN [table EXCEPT ![LastRowOf(table, e)].amount = @ - final_drift]
        ELSE table

\* lines 374-388: the drift of the persisted sum goes to the last row
PostInsertDrift(table, e, total) ==
    LET rows == ItemsOf(table, e)
        final_drift == Round2(total - SumSeq(AmountsOf(rows)))
    IN  IF Abs(final_drift) >= Cent /\ rows # <<>>
        THEN [table EXCEPT ![LastRowOf(table, e)].amount = @ + final_drift]
        ELSE table

\* lines 345-388 on the candidates of an expense with no rows: the amounts
\* the expense's rows hold when the run returns
Reconciled(norm, total) ==
    AmountsOf(PostInsertDrift(InsertItems(<<>>, 0, ItemsToInsert(norm, total)), 0, total))

\* expense_receipts er JOIN receipts r ON r.id = er.receipt_id WHERE er.expense_id = :id
LinksOf(e) == {l \in expense_receipts : l.expense_id = e /\ l.receipt_id \in receipts}

----------------------------------------------------------------------------
(* itemize_expense: the handler *)

NoItems == <<>>

\* return {...}: the items, reused, and the warning or error the result carries
Result(items, reused, warning, error) ==
    [outcome |-> "returned", exc |-> "", items |-> items, reused |-> reused,
     warning |-> warning, error |-> error]

\* raise ...: an HTTPException of the handler, or what the provider call let through
Raised(exc) ==
    [outcome |-> "raised", exc |-> exc, items |-> NoItems, reused |-> FALSE,
     warning |-> "", error |-> NoBody]

NoResp == [outcome |-> "none", exc |-> "", items |-> NoItems, reused |-> FALSE,
           warning |-> "", error |-> NoBody]

\* what a run did: the DELETE of a rebuild, the provider outcome it got, the
\* candidates after normalization, the total it reconciled against, whether
\* it scaled, the rows it inserted and the commits it made
Trace(deleted, provider, norm, total, scaled, inserts, commits) ==
    [deleted |-> deleted, provider |-> provider, norm |-> norm, total |-> total,
     scaled |-> scaled, inserts |-> inserts, commits |-> commits]

NoTrace == Trace(FALSE, NotInvoked, <<>>, 0, FALSE, 0, 0)

\* exp["category"].lower()
Lower(category) ==
    CASE category \in {"Hotel", "HOTEL", "hotel"} -> "hotel"
      [] category \in {"Airfare", "airfare"} -> "airfare"
      [] OTHER -> category

\* (variant: only the default strategy reuses)
ReusesExisting_OnlyAuto(existing, strategy) == existing # <<>> /\ strategy = "auto"

\* existing and strategy != "rebuild"
ReusesExisting(existing, strategy) == existing # <<>> /\ strategy # "rebuild"

\* strategy == "rebuild": the DELETE runs
Purges(strategy) == strategy = "rebuild"

\* (variant: closing the session keeps what it executed)
SessionClose_KeepsWork(committed, work) == work

\* get_db: db.close() of a session (autocommit=False) whose statements were
\* not committed rolls them back; the table is as it was committed
SessionClose(committed, work) == committed

\* A run of the handler on the tables as they are: the expense_items table it
\* leaves, its result and its trace.  A run that returns or raises before
\* db.commit() ends with the close of its session.
ItemizeRun(e, strategy, outcome) ==
    LET committed == expense_items
        Closed(w, r, t) == [items |-> SessionClose(committed, w), resp |-> r, trace |-> t]
    IN
    IF e \notin DOMAIN expenses
    THEN Closed(committed, Raised("HTTP404"), NoTrace)
    ELSE IF Lower(expenses[e].category) # "hotel"
    THEN Closed(committed, Raised("HTTP400"), NoTrace)
    ELSE
    LET deleted == Purges(strategy)
        work == IF deleted THEN DeleteItems(committed, e) ELSE committed
        existing == ItemsOf(work, e)
        total_amount == expenses[e].amount
        Rollback(r, t) == Closed(work, r, t)
    IN
    IF ReusesExisting(existing, strategy)
    THEN Rollback(Result(existing, TRUE, "", NoBody),
                  Trace(deleted, NotInvoked, <<>>, 0, FALSE, 0, 0))
    ELSE IF LinksOf(e) = {}
    THEN Rollback(Result(NoItems, FALSE, "No receipts linked", NoBody),
                  Trace(deleted, NotInvoked, <<>>, total_amount, FALSE, 0, 0))
    ELSE IF outcome.kind = "system_exit"
    THEN Rollback(Raised("SystemExit"),
                  Trace(deleted, outcome, <<>>, total_amount, FALSE, 0, 0))
    ELSE
    LET raw_text == RawText(outcome)
        norm == Normalize(ParsedItems(raw_text))
        Early(r) == Rollback(r, Trace(deleted, outcome, <<>>, total_amount, FALSE, 0, 0))
    IN
    IF IsErrorEnvelope(raw_text)
    THEN Early(Result(NoItems, FALSE, "", raw_text.body))
    ELSE IF IsEmptyText(raw_text)
    THEN Early(Result(NoItems, FALSE, "AOAI returned empty", NoBody))
    ELSE IF norm = <<>>
    THEN Early(Result(NoItems, FALSE, "No valid AOAI items", NoBody))
    ELSE
    LET items_to_insert == ItemsToInsert(norm, total_amount)
        inserted == InsertItems(work, e, items_to_insert)
        adjusted == PostInsertDrift(inserted, e, total_amount)
    IN  [items |-> adjusted,
         resp  |-> Result(ItemsOf(adjusted, e), FALSE, "", NoBody),
         trace |-> Trace(deleted, outcome, norm, total_amount,
                         ScaleApplies(norm, total_amount), Len(items_to_insert),
                         IF adjusted = inserted THEN 1 ELSE 2)]

ItemizeReq(e, strategy) == [op |-> "itemize", expense_id |-> e, strategy |-> strategy]

\* POST /expenses/{expense_id}/itemize
Itemize(e, strategy, outcome) ==
    LET run == ItemizeRun(e, strategy, outcome)
    IN  /\ expense_items' = run.items
        /\ req' = ItemizeReq(e, strategy)
        /\ resp' = run.resp
        /\ trace' = run.trace
        /\ UNCHANGED <<expenses, receipts, expense_receipts, match_call, fn_call,
                   expense_reports, report_expenses, stored_files, sessions>>

----------------------------------------------------------------------------
(* The other handlers that write the tables itemize reads *)

\* None, for an id or an amount a request leaves out
None == 0 - 999999

\* no function of the services is called on its own
NoFnCall == [fn |-> "none", called |-> FALSE]

----------------------------------------------------------------------------
(* itemize_expense, statement by statement: the requests of worker         *)
(* processes that share the database file.  Within one process the handler *)
(* has no await and runs to its end; nothing in it orders it against the   *)
(* handler of another process but the write lock of SQLite.  expense_items *)
(* is the committed table; a session's uncommitted DELETE is its field     *)
(* deleted.                                                                *)

\* most itemize requests in progress at a time
MaxSessions == 2
SessionIds == 1..MaxSessions

\* an itemize request and its session: where it is, its expense and
\* strategy, whether its DELETE ran, whether the expense had rows when it
\* began, the total_amount it read, the rows it inserted, its result
Run(pc, e, strategy, deleted, had_items, total_amount, inserts, result) ==
    [pc |-> pc, expense_id |-> e, strategy |-> strategy, deleted |-> deleted,
     had_items |-> had_items, total_amount |-> total_amount, inserts |-> inserts,
     result |-> result]

\* no request is in progress in the session
Idle == Run("idle", None, "", FALSE, FALSE, 0, 0, NoResp)
NoSessions == [s \in SessionIds |-> Idle]

\* the request of the session returned or raised: get_db closes the session
Ended(run, result) == [run EXCEPT !.pc = "returned", !.result = result]

\* a session whose DELETE ran holds the write lock of the database until it
\* commits or closes
HoldsWriteLock(s) == sessions[s].pc = "provider" /\ sessions[s].deleted

\* a statement that writes fails with 'database is locked' while another
\* session holds the write lock
LockedByOther(s) == \E t \in SessionIds \ {s} : HoldsWriteLock(t)

\* lines 205-281: the expense, the DELETE of a rebuild, the read of the
\* existing rows, the reuse, the links
ItemizeBegin(s, e, strategy) ==
    /\ sessions[s].pc \in {"idle", "returned"}
    /\ LET run == Run("provider", e, strategy, Purges(strategy),
                      ItemsOf(expense_items, e) # <<>>,
                      IF e \in DOMAIN expenses THEN expenses[e].amount ELSE 0, 0, NoResp)
           work == IF run.deleted THEN DeleteItems(expense_items, e) ELSE expense_items
           existing == ItemsOf(work, e)
       IN  sessions' = [sessions EXCEPT ![s] =
               IF e \notin DOMAIN expenses
               THEN Ended(run, Raised("HTTP404"))
               ELSE IF Lower(expenses[e].category) # "hotel"
               THEN Ended(run, Raised("HTTP400"))
               ELSE IF run.deleted /\ LockedByOther(s)
               THEN Ended(run, Raised("OperationalError"))
               ELSE IF ReusesExisting(existing, strategy)
               THEN Ended(run, Result(existing, TRUE, "", NoBody))
               ELSE IF LinksOf(e) = {}
               THEN Ended(run, Result(NoItems, FALSE, "No receipts linked", NoBody))
               ELSE run]
    /\ UNCHANGED <<expenses, expense_items, receipts, expense_receipts, expense_reports,
                   report_expenses, stored_files, req, resp, trace, match_call, fn_call>>

\* lines 283-373: the provider call comes back; its items are normalized,
\* reconciled against the total_amount read before the call, inserted and
\* committed
ItemizeInsert(s, outcome) ==
    /\ sessions[s].pc = "provider"
    /\ LET run == sessions[s]
           e == run.expense_id
           raw_text == RawText(outcome)
           norm == Normalize(ParsedItems(raw_text))
           items_to_insert == ItemsToInsert(norm, run.total_amount)
           work == IF run.deleted THEN DeleteItems(expense_items, e) ELSE expense_items
           early ==
               IF outcome.kind = "system_exit" THEN Raised("SystemExit")
               ELSE IF IsErrorEnvelope(raw_text) THEN Result(NoItems, FALSE, "", raw_text.body)
               ELSE IF IsEmptyText(raw_text)
               THEN Result(NoItems, FALSE, "AOAI returned empty", NoBody)
               ELSE IF norm = <<>> THEN Result(NoItems, FALSE, "No valid AOAI items", NoBody)
               ELSE IF LockedByOther(s) THEN Raised("OperationalError")
               ELSE NoResp
       IN  IF early # NoResp
           THEN /\ sessions' = [sessions EXCEPT ![s] = Ended(run, early)]
                /\ UNCHANGED expense_items
           ELSE /\ expense_items' = InsertItems(work, e, items_to_insert)
                /\ sessions' = [sessions EXCEPT ![s] =
                       [run EXCEPT !.pc = "inserted", !.inserts = Len(items_to_insert)]]
    /\ UNCHANGED <<expenses, receipts, expense_receipts, expense_reports,
                   report_expenses, stored_files, req, resp, trace, match_call, fn_call>>

\* lines 374-396: the rows of the expense are read again, the drift of
\* their sum goes to the last of them, and they are returned
ItemizeFinish(s) ==
    /\ sessions[s].pc = "inserted"
    /\ LET run == sessions[s]
           e == run.expense_id
           adjusted == PostInsertDrift(expense_items, e, run.total_amount)
       IN  IF adjusted # expense_items /\ LockedByOther(s)
           THEN /\ sessions' = [sessions EXCEPT ![s] = Ended(run, Raised("OperationalError"))]
                /\ UNCHANGED expense_items
           ELSE /\ expense_items' = adjusted
                /\ sessions' = [sessions EXCEPT ![s] =
                       Ended(run, Result(ItemsOf(adjusted, e), FALSE, "", NoBody))]
    /\ UNCHANGED <<expenses, receipts, expense_receipts, expense_reports,
                   report_expenses, stored_files, req, resp, trace, match_call, fn_call>>


\* PATCH /expenses/{expense_id}, by the amount and the tagged of its payload
\* (None: not given); the fields that are not None are set
UpdateExpense(e, amount, tagged) ==
    /\ expenses' = IF e \in DOMAIN expenses
                   THEN [expenses EXCEPT
                             ![e].amount = IF amount # None THEN amount ELSE @,
                             ![e].tagged = IF tagged # None THEN tagged ELSE @]
                   ELSE expenses
    /\ req' = [op |-> "update_expense", expense_id |-> e, strategy |-> ""]
    /\ resp' = IF e \in DOMAIN expenses THEN Result(NoItems, FALSE, "", NoBody)
               ELSE Raised("HTTP404")
    /\ trace' = NoTrace
    /\ UNCHANGED <<expense_items, receipts, expense_receipts, match_call, fn_call,
                   expense_reports, report_expenses, stored_files, sessions>>

\* last_insert_rowid() of an INSERT into a table with the ids of ids
NextId(ids) == IF ids = {} THEN 1 ELSE (CHOOSE i \in ids : \A j \in ids : j <= i) + 1

\* POST /expenses/: the payload is an ExpenseCreate, every field given but
\* tagged, which defaults to 0
CreateExpense(category, amount, tagged) ==
    /\ expenses' = expenses @@ (NextId(DOMAIN expenses) :>
                                    [category |-> category, amount |-> amount, tagged |-> tagged])
    /\ req' = [op |-> "create_expense", expense_id |-> None, strategy |-> ""]
    /\ resp' = Result(NoItems, FALSE, "", NoBody)
    /\ trace' = NoTrace
    /\ UNCHANGED <<expense_items, receipts, expense_receipts, expense_reports,
                   report_expenses, stored_files, sessions, match_call, fn_call>>

\* POST /expenses/{expense_id}/duplicate: the row is copied under a new id,
\* its tagged included
DuplicateExpense(e) ==
    /\ expenses' = IF e \in DOMAIN expenses
                   THEN expenses @@ (NextId(DOMAIN expenses) :> expenses[e])
                   ELSE expenses
    /\ req' = [op |-> "duplicate_expense", expense_id |-> e, strategy |-> ""]
    /\ resp' = IF e \in DOMAIN expenses THEN Result(NoItems, FALSE, "", NoBody)
               ELSE Raised("HTTP404")
    /\ trace' = NoTrace
    /\ UNCHANGED <<expense_items, receipts, expense_receipts, expense_reports,
                   report_expenses, stored_files, sessions, match_call, fn_call>>

\* a key the dict does not have
NoKey == None - 1

\* an entry of a bulk request: a dict by its id, category, amount and tagged
\* (None: null or, for the id, absent; NoKey: tagged is absent), complete
\* when it gives the other NOT NULL columns; or something that is no dict
BulkItem(id, category, amount, tagged, complete) ==
    [isdict |-> TRUE, id |-> id, category |-> category, amount |-> amount,
     tagged |-> tagged, complete |-> complete]
NotDictItem == [isdict |-> FALSE, id |-> None, category |-> "", amount |-> None,
                tagged |-> NoKey, complete |-> FALSE]

\* lines 111-144: the table after the entries, in order; raised when an
\* INSERT leaves a NOT NULL column without a value (IntegrityError)
RECURSIVE BulkApply(_, _)
BulkApply(table, items) ==
    IF items = <<>> THEN [table |-> table, raised |-> FALSE]
    ELSE LET item == Head(items)
             tagged == IF item.tagged = NoKey THEN 0 ELSE item.tagged
         IN  IF ~item.isdict THEN BulkApply(table, Tail(items))
             ELSE IF item.id # None /\ item.id # 0 /\ item.id \in DOMAIN table
             THEN BulkApply([table EXCEPT
                                 ![item.id].category = IF item.category # "" THEN item.category ELSE @,
                                 ![item.id].amount = IF item.amount # None THEN item.amount ELSE @,
                                 ![item.id].tagged = IF tagged # None THEN tagged ELSE @],
                            Tail(items))
             ELSE IF item.category = "" \/ item.amount = None \/ tagged = None \/ ~item.complete
             THEN [table |-> table, raised |-> TRUE]
             ELSE BulkApply(table @@ (NextId(DOMAIN table) :>
                                          [category |-> item.category, amount |-> item.amount,
                                           tagged |-> tagged]),
                            Tail(items))

\* POST /expenses/bulk: one commit after the last entry
BulkUpsert(items) ==
    LET done == BulkApply(expenses, items)
    IN  /\ expenses' = IF done.raised THEN expenses ELSE done.table
        /\ req' = [op |-> "bulk_upsert", expense_id |-> None, strategy |-> ""]
        /\ resp' = IF done.raised THEN Raised("IntegrityError")
                   ELSE Result(NoItems, FALSE, "", NoBody)
        /\ trace' = NoTrace
        /\ UNCHANGED <<expense_items, receipts, expense_receipts, expense_reports,
                       report_expenses, stored_files, sessions, match_call, fn_call>>

\* "expense_ids" of a report payload: a list of ids, or a value that is no
\* list of integers (the key missing, a string, ...)
ExpenseIds(ids) == [islist |-> TRUE, ids |-> ids]
NoExpenseIds == [islist |-> FALSE, ids |-> <<>>]

Range(seq) == {seq[i] : i \in 1..Len(seq)}

\* POST /expense-reports/: a report row, a junction row for every id of the
\* list, and tagged = 1 for the expenses of those ids
CreateReport(expense_ids) ==
    LET ok == expense_ids.islist /\ expense_ids.ids # <<>>
        report_id == NextId(expense_reports)
        ids == Range(expense_ids.ids)
    IN  /\ expense_reports' = IF ok THEN expense_reports \cup {report_id} ELSE expense_reports
        /\ report_expenses' =
               IF ok THEN report_expenses \cup {[report_id |-> report_id, expense_id |-> e] : e \in ids}
               ELSE report_expenses
        /\ expenses' = IF ok
                       THEN [e \in DOMAIN expenses |->
                                IF e \in ids THEN [expenses[e] EXCEPT !.tagged = 1]
                                ELSE expenses[e]]
                       ELSE expenses
        /\ req' = [op |-> "create_report", expense_id |-> None, strategy |-> ""]
        /\ resp' = IF ok THEN Result(NoItems, FALSE, "", NoBody) ELSE Raised("HTTP400")
        /\ trace' = NoTrace
        /\ UNCHANGED <<expense_items, receipts, expense_receipts, stored_files, sessions,
                       match_call, fn_call>>

\* a row of table expense_receipts (scores in hundredths)
Mapping(exp_id, rec_id, score) ==
    [expense_id |-> exp_id, receipt_id |-> rec_id, match_score |-> score]

\* an entry of the "mappings" list of a confirm-matches request: a dict by
\* its four keys (an id that is absent or null is None), or something else
RequestMapping(exp_id, rec_id, match_score, score) ==
    [isdict |-> TRUE, expense_id |-> exp_id, receipt_id |-> rec_id,
     match_score |-> match_score, score |-> score]
NotDict == [isdict |-> FALSE, expense_id |-> None, receipt_id |-> None,
            match_score |-> NoKey, score |-> NoKey]

\* data.get("mappings", []): a list of entries, or a value that is no list
MappingList(entries) == [islist |-> TRUE, entries |-> entries]
NotAList == [islist |-> FALSE, entries |-> <<>>]

\* m.get("match_score", m.get("score")), None when the result is absent
ScoreOf(m) ==
    LET got == IF m.match_score # NoKey THEN m.match_score ELSE m.score
    IN  IF got = NoKey THEN None ELSE got

\* lines 157-173: the rows of the entries that are dicts and carry both ids,
\* a score of None defaulting to 0.0
RECURSIVE Normalized(_)
Normalized(mappings) ==
    IF mappings = <<>> THEN <<>>
    ELSE LET m == Head(mappings)
         IN  (IF ~m.isdict \/ m.expense_id = None \/ m.receipt_id = None THEN <<>>
              ELSE <<Mapping(m.expense_id, m.receipt_id,
                             IF ScoreOf(m) = None THEN 0 ELSE ScoreOf(m))>>)
             \o Normalized(Tail(mappings))

\* (variant: INSERT OR IGNORE, the row of the same key stays)
InsertOrReplace_Ignore(table, row) ==
    IF \E l \in table : l.expense_id = row.expense_id /\ l.receipt_id = row.receipt_id
    THEN table
    ELSE table \cup {row}

\* INSERT OR REPLACE INTO expense_receipts: the row of the same key goes
InsertOrReplace(table, row) ==
    {l \in table : ~(l.expense_id = row.expense_id /\ l.receipt_id = row.receipt_id)}
    \cup {row}

RECURSIVE InsertAll(_, _)
InsertAll(table, rows) ==
    IF rows = <<>> THEN table
    ELSE InsertAll(InsertOrReplace(table, Head(rows)), Tail(rows))

\* POST /receipts/confirm-matches
ConfirmMatches(mappings) ==
    /\ expense_receipts' = IF ~mappings.islist THEN expense_receipts
                           ELSE InsertAll(expense_receipts, Normalized(mappings.entries))
    /\ req' = [op |-> "confirm_matches", expense_id |-> None, strategy |-> "",
               mappings |-> mappings]
    /\ resp' = IF ~mappings.islist
               THEN Result(NoItems, FALSE, "mappings must be a list", NoBody)
               ELSE Result(NoItems, FALSE, "", NoBody)
    /\ trace' = NoTrace
    /\ UNCHANGED <<expenses, expense_items, receipts, match_call, fn_call,
                   expense_reports, report_expenses, stored_files, sessions>>

\* most rows of table receipts
MaxReceipts == 1

\* most files the uploads store
MaxUploads == 2

\* a file an upload stored: in the blob container (stored_path is the blob
\* name) or under UPLOAD_DIR (stored_path is the local path)
StoredFile(file, store) == [file |-> file, store |-> store]

\* POST /receipts/upload of one file.  A blob upload that succeeds stores
\* the file in the container, and the request goes on to extraction, the
\* row in table receipts under the next id and the proposals.  A blob upload
\* that fails is re-raised by the except block; the finally block writes the
\* file under UPLOAD_DIR on the way out, and the exception ends the request
\* before stored_files.append: nothing is extracted and no row is inserted.
UploadReceipts(blob_ok) ==
    /\ Cardinality(receipts) < MaxReceipts
    /\ Cardinality(stored_files) < MaxUploads
    /\ stored_files' = stored_files \cup
           {StoredFile(Cardinality(stored_files) + 1, IF blob_ok THEN "blob" ELSE "local")}
    /\ receipts' = IF blob_ok THEN receipts \cup {Cardinality(receipts) + 1} ELSE receipts
    /\ req' = [op |-> "upload_receipts", expense_id |-> None, strategy |-> ""]
    /\ resp' = IF blob_ok THEN Result(NoItems, FALSE, "", NoBody) ELSE Raised("Exception")
    /\ trace' = NoTrace
    /\ UNCHANGED <<expenses, expense_items, expense_receipts, match_call, fn_call,
                   expense_reports, report_expenses, sessions>>

----------------------------------------------------------------------------
(* services/matching.py: values                                            *)
(*                                                                         *)
(* A string is the sequence of its characters; NoneS is Python's None     *)
(* where a string may stand.  A score is an exact fraction [n, d] in       *)
(* lowest terms, d > 0.                                                    *)

NoneS == <<"None">>

\* bool(s) of a string or None
TruthyS(s) == s # NoneS /\ s # <<>>

RECURSIVE GCD(_, _)
GCD(a, b) == IF b = 0 THEN a ELSE GCD(b, a % b)

Rat(n, d) == LET g == GCD(Abs(n), d) IN [n |-> n \div g, d |-> d \div g]
RatLess(a, b) == a.n * b.d < b.n * a.d
RatAdd(a, b) == Rat(a.n * b.d + b.n * a.d, a.d * b.d)
RatMul(a, b) == Rat(a.n * b.n, a.d * b.d)
RatMax(S) == CHOOSE r \in S : \A q \in S : ~RatLess(r, q)
Zero == Rat(0, 1)
One == Rat(1, 1)

\* (variant: the weights of amount and date change places)
WEIGHTS_Swapped == [merchant |-> [n |-> 1, d |-> 2], amount |-> [n |-> 1, d |-> 5],
                    date |-> [n |-> 3, d |-> 10]]

WEIGHTS == [merchant |-> Rat(5, 10), amount |-> Rat(3, 10), date |-> Rat(2, 10)]

----------------------------------------------------------------------------
(* normalize_merchant, normalize_amount *)

\* str.lower() of a character
LowerChar(c) ==
    CASE c = "A" -> "a"
      [] c = "B" -> "b"
      [] c = "C" -> "c"
      [] OTHER -> c

\* [a-z0-9]
IsAlnum(c) == c \in {"a", "b", "c", "1", "2"}

Lowered(s) == [i \in 1..Len(s) |-> LowerChar(s[i])]

\* str.strip()
RECURSIVE LStrip(_)
LStrip(s) == IF s # <<>> /\ Head(s) = " " THEN LStrip(Tail(s)) ELSE s
RECURSIVE RStrip(_)
RStrip(s) ==
    IF s # <<>> /\ s[Len(s)] = " " THEN RStrip(SubSeq(s, 1, Len(s) - 1)) ELSE s
Strip(s) == RStrip(LStrip(s))

\* MERCHANT_SANITIZE_RE.sub(" ", name): every run of [^a-z0-9] becomes one space
RECURSIVE SkipNonAlnum(_)
SkipNonAlnum(s) == IF s # <<>> /\ ~IsAlnum(Head(s)) THEN SkipNonAlnum(Tail(s)) ELSE s
RECURSIVE Sanitize(_)
Sanitize(s) ==
    IF s = <<>> THEN <<>>
    ELSE IF IsAlnum(Head(s)) THEN <<Head(s)>> \o Sanitize(Tail(s))
    ELSE <<" ">> \o Sanitize(SkipNonAlnum(s))

\* re.sub(r"\s+", " ", name): every run of white space becomes one space
RECURSIVE SkipSpaces(_)
SkipSpaces(s) == IF s # <<>> /\ Head(s) = " " THEN SkipSpaces(Tail(s)) ELSE s
RECURSIVE CollapseSpaces(_)
CollapseSpaces(s) ==
    IF s = <<>> THEN <<>>
    ELSE IF Head(s) # " " THEN <<Head(s)>> \o CollapseSpaces(Tail(s))
    ELSE <<" ">> \o CollapseSpaces(SkipSpaces(s))

normalize_merchant(name) ==
    IF ~TruthyS(name) THEN NoneS
    ELSE Strip(CollapseSpaces(Sanitize(Strip(Lowered(name)))))

\* round(float(a), 2), None when a is None
normalize_amount(a) == IF a = None THEN None ELSE Round2(a)

----------------------------------------------------------------------------
(* fuzz.partial_ratio(s1, s2) / 100: the best similarity of the shorter     *)
(* string against a window of the longer one, the similarity of two        *)
(* strings being 2 * LCS / (sum of lengths)                                *)

Max(a, b) == IF a > b THEN a ELSE b
Min(a, b) == IF a < b THEN a ELSE b

\* length of the longest common subsequence
RECURSIVE LCS(_, _)
LCS(s, t) ==
    IF s = <<>> \/ t = <<>> THEN 0
    ELSE IF Head(s) = Head(t) THEN 1 + LCS(Tail(s), Tail(t))
    ELSE Max(LCS(Tail(s), t), LCS(s, Tail(t)))

Ratio(s, t) == IF Len(s) + Len(t) = 0 THEN One ELSE Rat(2 * LCS(s, t), Len(s) + Len(t))

\* the windows of long the width of short, those that hang over an end cut
Windows(short, long) ==
    {SubSeq(long, Max(1, i), Min(Len(long), i + Len(short) - 1)) :
         i \in (2 - Len(short))..Len(long)}

PartialRatio(s1, s2) ==
    IF s1 = <<>> \/ s2 = <<>> THEN Zero
    ELSE LET short == IF Len(s1) <= Len(s2) THEN s1 ELSE s2
             long == IF Len(s1) <= Len(s2) THEN s2 ELSE s1
         IN  RatMax({Ratio(short, w) : w \in Windows(short, long)})

----------------------------------------------------------------------------
(* score_match: _parse_date                                                *)
(*                                                                         *)
(* A date string is kept by its layout: "ymd" YYYY-MM-DD, "dmy4"           *)
(* DD-MM-YYYY, "dmy2" DD-MM-YY (y is the two digits), each with the        *)
(* separator it is written with and, possibly, a time after it; "garbage"  *)
(* is text that is no date, "blank" is white space only, "empty" is "",    *)
(* "number" is a value that is no string (a non-zero number).              *)

DateStr(layout, sep, y, m, d, suffix) ==
    [layout |-> layout, sep |-> sep, y |-> y, m |-> m, d |-> d, suffix |-> suffix]
NoneDate == DateStr("none", "-", 0, 0, 0, "")
EmptyDate == DateStr("empty", "-", 0, 0, 0, "")
BlankDate == DateStr("blank", "-", 0, 0, 0, "")
GarbageDate == DateStr("garbage", "-", 0, 0, 0, "")
NumberDate == DateStr("number", "-", 0, 0, 0, "")
Iso(y, m, d) == DateStr("ymd", "-", y, m, d, "")

\* bool(val) of a date string or None
TruthyD(val) == val.layout \notin {"none", "empty"}

IsLeap(y) == (y % 4 = 0 /\ y % 100 # 0) \/ y % 400 = 0

DaysInMonth(y, m) ==
    IF m = 2 THEN (IF IsLeap(y) THEN 29 ELSE 28)
    ELSE IF m \in {4, 6, 9, 11} THEN 30 ELSE 31

RECURSIVE DaysBeforeMonth(_, _)
DaysBeforeMonth(y, m) ==
    IF m <= 1 THEN 0 ELSE DaysBeforeMonth(y, m - 1) + DaysInMonth(y, m - 1)

\* date.toordinal(): the days from 0001-01-01, that day being 1
Ordinal(y, m, d) ==
    LET p == y - 1
    IN  365 * p + (p \div 4) - (p \div 100) + (p \div 400) + DaysBeforeMonth(y, m) + d

ValidDate(y, m, d) ==
    y \in 1..9999 /\ m \in 1..12 /\ d \in 1..DaysInMonth(y, m)

\* the year strptime gives for %y: 69-99 are 1969-1999, 0-68 are 2000-2068
StrptimeYear(yy) == IF yy >= 69 THEN 1900 + yy ELSE 2000 + yy

\* lines 62-67: a year below 100 is moved to 20xx (0-79) or 19xx
ExpandYear(year) ==
    IF year < 100 THEN (IF year <= 79 THEN year + 2000 ELSE year + 1900) ELSE year

\* s.replace('.', '-') and re.sub(r'[\/]', '-', s)
NormalizeSeparators(val) == [val EXCEPT !.sep = "-"]

\* val.strip().split()[0]: the first token; a time after a space goes, a
\* time after a 'T' stays
FirstToken(val) == IF val.suffix = "space_time" THEN [val EXCEPT !.suffix = ""] ELSE val

Parsed(day) == [raised |-> FALSE, day |-> day]
ParseRaises == [raised |-> TRUE, day |-> None]

\* _parse_date(val): the ordinal of the date, None, or an exception
\* (of white space only, split() gives no token and [0] raises IndexError)
ParseDate(val) ==
    IF ~TruthyD(val) \/ val.layout = "number" THEN Parsed(None)
    ELSE IF val.layout = "blank" THEN ParseRaises
    ELSE LET s_norm == NormalizeSeparators(FirstToken(val))
         IN  IF s_norm.layout = "garbage" \/ s_norm.suffix # "" THEN Parsed(None)
             ELSE IF s_norm.layout \in {"ymd", "dmy4"}
             THEN (IF ValidDate(s_norm.y, s_norm.m, s_norm.d)
                   THEN Parsed(Ordinal(ExpandYear(s_norm.y), s_norm.m, s_norm.d))
                   ELSE Parsed(None))
             ELSE (IF ValidDate(StrptimeYear(s_norm.y), s_norm.m, s_norm.d)
                   THEN Parsed(Ordinal(ExpandYear(StrptimeYear(s_norm.y)), s_norm.m, s_norm.d))
                   ELSE Parsed(None))

----------------------------------------------------------------------------
(* score_match *)

\* None where a text (an error message, a status) may stand
NoneT == "<None>"
TruthyT(t) == t # NoneT /\ t # ""

\* (variant: the second string is never taken)
PyOrS_First(a, b) == a

\* a or b, of strings
PyOrS(a, b) == IF TruthyS(a) THEN a ELSE b

\* lines 74-80
MerchantScore(expense, receipt) ==
    LET extracted_merchant == PyOrS(receipt.extracted_merchant, receipt.extracted_vendor_name)
    IN  IF TruthyS(extracted_merchant) /\ TruthyS(expense.merchant)
        THEN LET rec_merch == normalize_merchant(extracted_merchant)
                 exp_merch == normalize_merchant(expense.merchant)
             IN  IF TruthyS(rec_merch) /\ TruthyS(exp_merch)
                 THEN PartialRatio(rec_merch, exp_merch)
                 ELSE Zero
        ELSE Zero

\* half a currency unit, in mills: the absolute tolerance of line 91
HalfUnit == 500

\* The amounts are floats.  Of two amounts exactly 0.50 apart the float
\* difference is 0.5 or a rounding error away from it, by the binary
\* expansions of the two; everywhere else a rounding error is far too small
\* to move a comparison.  These are the pairs (expense amount, receipt
\* amount) of the amounts the model scores, in mills, whose float difference
\* comes out above 0.5: abs(15.6 - 16.1) and abs(0.57 - 1.07).
InexactHalf == {<<15600, 16100>>, <<570, 1070>>}

\* lines 84-97; pct / 0.05 is 20 * delta / exp_amount
AmountScore(expense, receipt) ==
    LET exp_amount == normalize_amount(expense.amount)
        rec_amount == normalize_amount(receipt.extracted_amount)
    IN  IF exp_amount # None /\ rec_amount # None
        THEN LET delta == Abs(exp_amount - rec_amount)
                 delta_le_half ==
                     delta < HalfUnit
                         \/ (delta = HalfUnit /\ <<exp_amount, rec_amount>> \notin InexactHalf)
             IN  IF exp_amount = 0 THEN Zero
                 ELSE IF delta_le_half THEN One
                 ELSE LET decayed == IF exp_amount > 0
                                     THEN Rat(exp_amount - 20 * delta, exp_amount)
                                     ELSE Rat(20 * delta - exp_amount, 0 - exp_amount)
                      IN  IF RatLess(decayed, Zero) THEN Zero ELSE decayed
        ELSE Zero

\* (variant: the distances are off by one day)
NearScore_Shifted(delta_days) ==
    IF delta_days = 2 THEN Rat(6, 10) ELSE IF delta_days = 3 THEN Rat(3, 10) ELSE Zero

\* 0.6 for a day's distance of 1, 0.3 for 2
NearScore(delta_days) ==
    IF delta_days = 1 THEN Rat(6, 10) ELSE IF delta_days = 2 THEN Rat(3, 10) ELSE Zero

\* lines 101-137: any exception inside leaves the score 0
DateScore(expense, receipt) ==
    LET exp_date == ParseDate(expense.date)
        range_start == receipt.extracted_service_start
        range_end == receipt.extracted_service_end
        single_date == receipt.extracted_date
    IN  IF ~TruthyD(expense.date) THEN Zero
        ELSE IF exp_date.raised \/ exp_date.day = None THEN Zero
        ELSE IF TruthyD(range_start) /\ TruthyD(range_end)
        THEN LET start_d == ParseDate(range_start)
                 end_d == ParseDate(range_end)
             IN  IF start_d.raised \/ end_d.raised THEN Zero
                 ELSE IF start_d.day = None \/ end_d.day = None THEN Zero
                 ELSE IF start_d.day <= exp_date.day /\ exp_date.day <= end_d.day THEN One
                 ELSE IF exp_date.day < start_d.day
                 THEN NearScore(start_d.day - exp_date.day)
                 ELSE NearScore(exp_date.day - end_d.day)
        ELSE IF TruthyD(single_date)
        THEN LET rec_date == ParseDate(single_date)
             IN  IF rec_date.raised \/ rec_date.day = None THEN Zero
                 ELSE IF rec_date.day = exp_date.day THEN One
                 ELSE NearScore(Abs(rec_date.day - exp_date.day))
        ELSE Zero

\* f"{component:.2f}", in hundredths
Fmt2(r) == RoundHalfEven(100 * r.n, r.d)

\* lines 144-151: the parts of the rationale
Rationale(m, a, d, receipt) ==
    [merchant |-> Fmt2(m), amount |-> Fmt2(a), date |-> Fmt2(d),
     range |-> TruthyD(receipt.extracted_service_start) \/ TruthyD(receipt.extracted_service_end),
     vendor_used |-> TruthyS(receipt.extracted_vendor_name) /\ ~TruthyS(receipt.extracted_merchant)]

\* score_match(expense, receipt): (total, rationale, details)
score_match(expense, receipt) ==
    LET merchant_score == MerchantScore(expense, receipt)
        amount_score == AmountScore(expense, receipt)
        date_score == DateScore(expense, receipt)
        total == RatAdd(RatAdd(RatMul(merchant_score, WEIGHTS.merchant),
                               RatMul(amount_score, WEIGHTS.amount)),
                        RatMul(date_score, WEIGHTS.date))
    IN  [total |-> total,
         rationale |-> Rationale(merchant_score, amount_score, date_score, receipt),
         details |-> [merchant_score |-> merchant_score, amount_score |-> amount_score,
                      date_score |-> date_score, weighted_total |-> total]]

----------------------------------------------------------------------------
(* propose_matches *)

\* statuses that start with "error_": those the Document Intelligence and
\* Content Understanding extractions give
ErrorStatuses ==
    {"error_cu_analyze", "error_cu_missing_config", "error_docintel_analyze",
     "error_docintel_exception", "error_docintel_unavailable", "error_file_not_found"}

\* str(r.get("status", "")).startswith("error_")
StartsWithError(status) == status \in ErrorStatuses

\* line 158: the receipt is flagged with an error
FlaggedError(r) == TruthyT(r.error_message) \/ StartsWithError(r.status)

\* (variant: a receipt is skipped when it lacks a merchant or lacks an amount)
InsufficientExtraction_Either(r) ==
    ~(TruthyS(r.extracted_merchant) \/ TruthyS(r.extracted_vendor_name))
        \/ r.extracted_amount = None

\* line 161: no merchant or vendor, and no amount
InsufficientExtraction(r) ==
    ~(TruthyS(r.extracted_merchant) \/ TruthyS(r.extracted_vendor_name))
        /\ r.extracted_amount = None

NoBest == [found |-> FALSE, score |-> Zero, rationale |-> Rationale(Zero, Zero, Zero,
               [extracted_service_start |-> NoneDate, extracted_service_end |-> NoneDate,
                extracted_vendor_name |-> NoneS, extracted_merchant |-> NoneS]),
           expense_id |-> None, receipt_id |-> None]

\* (variant: a score equal to the best replaces it)
Better_OrEqual(best, score) == ~best.found \/ ~RatLess(score, best.score)

\* line 177: best is None or score > best[0]
Better(best, score) == ~best.found \/ RatLess(best.score, score)

\* lines 164-178: the loop over the expenses, from the best there is so far
RECURSIVE BestOf(_, _, _)
BestOf(best, exps, r) ==
    IF exps = <<>> THEN best
    ELSE LET e == Head(exps)
             scored == score_match(e, r)
             better == Better(best, scored.total)
         IN  BestOf(IF better
                    THEN [found |-> TRUE, score |-> scored.total,
                          rationale |-> scored.rationale,
                          expense_id |-> e.id, receipt_id |-> r.id]
                    ELSE best,
                    Tail(exps), r)

\* round(best[0], 4), in ten-thousandths
Round4(r) == RoundHalfEven(10000 * r.n, r.d)

Proposal(best) ==
    [receipt_id |-> best.receipt_id, expense_id |-> best.expense_id,
     score |-> Round4(best.score), rationale |-> best.rationale]

\* propose_matches(expenses, receipts)
RECURSIVE propose_matches(_, _)
propose_matches(exps, recs) ==
    IF recs = <<>> THEN <<>>
    ELSE LET r == Head(recs)
             best == BestOf(NoBest, exps, r)
         IN  (IF FlaggedError(r) \/ InsufficientExtraction(r) THEN <<>>
              ELSE IF best.found THEN <<Proposal(best)>>
              ELSE <<>>)
             \o propose_matches(exps, Tail(recs))

NoCall == [called |-> FALSE, expenses |-> <<>>, receipts |-> <<>>, proposals |-> <<>>]

\* a call of propose_matches on the arguments at hand
ProposeMatches ==
    /\ ~match_call.called
    /\ match_call' = [match_call EXCEPT
                          !.called = TRUE,
                          !.proposals = propose_matches(match_call.expenses, match_call.receipts)]
    /\ UNCHANGED <<expenses, expense_items, receipts, expense_receipts, req, resp, trace,
                   fn_call,
                   expense_reports, report_expenses, stored_files, sessions>>

----------------------------------------------------------------------------
(* Inputs *)

\* the sequences over S of length 1..n
SeqsUpTo(S, n) == UNION {[1..k -> S] : k \in 1..n}

\* candidate amounts, in mills: whole cents, amounts off the cent grid
\* (0.004, 0.994) and one near a larger total (0.99)
CandAmounts == {k * Cent : k \in 1..MaxCandCents} \cup {4, 990, 994}

\* expense amounts, in mills: whole cents from -0.01 on, amounts off the
\* cent grid (0.004, 0.014, 0.101), and 1.00
Totals == {k * Cent : k \in (0 - 1)..MaxTotalCents} \cup {4, 14, 101, 1000}

\* arrays of the shape the provider is asked for
DebitArrays ==
    {[i \in 1..Len(a) |-> Debit(a[i])] : a \in SeqsUpTo(CandAmounts, MaxItems)}

\* what a provider may write under one of the amount keys
FieldValues ==
    {Absent, Null, EmptyStr, BadStr, Num(0), Num(20), Num(0 - 20), NumStr(30), NumStr(0)}

\* arrays of one object with any mix of the three amount keys, and arrays
\* with an element that is no object
MixedArrays ==
    {<<Obj(d, a, t)>> : d \in FieldValues, a \in FieldValues, t \in FieldValues}
    \cup {<<NotObj>>, <<NotObj, Debit(20)>>, <<Debit(0), Debit(30), Obj(Null, Num(0), NumStr(10))>>}

ArrayOutcomes ==
    {Returned(Text("plain", ArrayBody(a))) : a \in DebitArrays \cup MixedArrays}

Strategies == {"auto", "rebuild", "refresh"}

\* the expenses of the seed, one of each kind (amounts in mills)
AirfareId == 1
HotelId == 2
SeedExpenses(hotel_amount) ==
    (AirfareId :> [category |-> "Airfare", amount |-> 200, tagged |-> 0])
    @@ (HotelId :> [category |-> "Hotel", amount |-> hotel_amount, tagged |-> 0])

----------------------------------------------------------------------------
(* SpecReconcile: one itemize run of a Hotel expense that has a receipt    *)
(* linked and no items yet, for every expense amount and every array.      *)

InitReconcile ==
    /\ \E total \in Totals : expenses = SeedExpenses(total)
    /\ expense_items = <<>>
    /\ receipts = {1}
    /\ expense_receipts = {Mapping(HotelId, 1, 0)}
    /\ expense_reports = {}
    /\ report_expenses = {}
    /\ stored_files = {}
    /\ sessions = NoSessions
    /\ req = [op |-> "none", expense_id |-> None, strategy |-> ""]
    /\ resp = NoResp
    /\ trace = NoTrace
    /\ match_call = NoCall
    /\ fn_call = NoFnCall

ItemizeFresh ==
    /\ req.op = "none"
    /\ \E strategy \in {"auto", "rebuild"}, outcome \in ArrayOutcomes :
           Itemize(HotelId, strategy, outcome)

NextReconcile == ItemizeFresh

SpecReconcile == InitReconcile /\ [][NextReconcile]_vars

\* SpecPositive: the same, the expense amounts being those greater than 0
InitPositive == InitReconcile /\ expenses[HotelId].amount > 0

SpecPositive == InitPositive /\ [][NextReconcile]_vars

----------------------------------------------------------------------------
(* Spec: the service from its seed, under any sequence of requests *)

\* the ids requests name: the two expenses above and one no row of the seed has
GhostId == HotelId + 3
RequestIds == {AirfareId, HotelId, GhostId}

\* amounts of update payloads (None: the payload carries no amount)
UpdateAmounts == {None, 0, 40}

\* texts the provider returns besides the arrays above
ServiceTexts ==
    {Text("plain", ObjectBody("truthy", TRUE)),
     Text("plain", ObjectBody("falsy", TRUE)),
     Text("plain", ObjectBody("truthy", FALSE)),
     Text("plain", BrokenObjectBody(TRUE)),
     Text("fenced", ObjectBody("truthy", TRUE)),
     Text("plain", GarbageBody),
     Text("plain", ScalarBody),
     Text("fenced_json", ArrayBody(<<>>)),
     Text("fenced_inline", ArrayBody(<<Debit(30)>>)),
     Text("plain", ArrayBody(<<Debit(0), NotObj, Obj(Null, BadStr, Absent), Debit(0 - 20)>>)),
     Text("plain", ArrayBody(<<Debit(40)>>))}
    \cup {Text(layout, ArrayBody(<<Debit(30), Debit(30), Debit(30)>>)) :
              layout \in {"plain", "fenced", "fenced_json", "json_label"}}

ServiceOutcomes ==
    {RaisesException, RaisesSystemExit, Returned(EmptyText)}
    \cup {Returned(text) : text \in ServiceTexts}

\* the "mappings" of confirm-matches requests: the score under either key,
\* under both, null or absent; entries without an id or that are no dict;
\* a pair twice; one receipt for several expenses, one of them of no row;
\* and a value that is no list
MappingLists ==
    {MappingList(entries) : entries \in
        {<<>>,
         <<RequestMapping(HotelId, 1, NoKey, 91)>>,
         <<RequestMapping(HotelId, 1, None, 70)>>,
         <<RequestMapping(None, 1, 50, NoKey), RequestMapping(HotelId, None, 50, NoKey),
           NotDict>>,
         <<RequestMapping(HotelId, 1, 50, NoKey), RequestMapping(AirfareId, 1, NoKey, NoKey),
           RequestMapping(GhostId, 1, NoKey, 60), RequestMapping(HotelId, 1, 80, 10)>>}}
    \cup {NotAList}

Init ==
    /\ expenses = SeedExpenses(100)
    /\ expense_items = <<>>
    /\ receipts = {}
    /\ expense_receipts = {}
    /\ expense_reports = {}
    /\ report_expenses = {}
    /\ stored_files = {}
    /\ sessions = NoSessions
    /\ req = [op |-> "none", expense_id |-> None, strategy |-> ""]
    /\ resp = NoResp
    /\ trace = NoTrace
    /\ match_call = NoCall
    /\ fn_call = NoFnCall

Next ==
    \/ \E e \in RequestIds, strategy \in Strategies, outcome \in ServiceOutcomes :
           Itemize(e, strategy, outcome)
    \/ \E e \in {HotelId, GhostId}, amount \in UpdateAmounts : UpdateExpense(e, amount, None)
    \/ \E amount \in UpdateAmounts \ {None} :
           BulkUpsert(<<BulkItem(HotelId, "", amount, NoKey, FALSE)>>)
    \/ \E mappings \in MappingLists : ConfirmMatches(mappings)
    \/ \E blob_ok \in BOOLEAN : UploadReceipts(blob_ok)

Spec == Init /\ [][Next]_vars

----------------------------------------------------------------------------
(* SpecMatch: one call of propose_matches, for every list of expenses and  *)
(* every list of receipts drawn from the rows below.                        *)

\* most expenses, and most receipts, of a call
MaxExpenseList == 2
MaxReceiptList == 2

ExpenseRow(id, merchant, amount, date) ==
    [id |-> id, merchant |-> merchant, amount |-> amount, date |-> date]

ReceiptRow(error_message, status, merchant, vendor, amount, date) ==
    [id |-> 0, error_message |-> error_message, status |-> status,
     extracted_merchant |-> merchant, extracted_vendor_name |-> vendor,
     extracted_amount |-> amount, extracted_date |-> date,
     extracted_service_start |-> NoneDate, extracted_service_end |-> NoneDate]

\* expense rows (amounts in mills)
ExpensePool ==
    {ExpenseRow(1, <<"a", "b">>, 20000, Iso(2024, 9, 24)),
     ExpenseRow(2, <<"A", "c", " ">>, 20000, Iso(2024, 9, 25)),
     ExpenseRow(3, NoneS, 0, NoneDate)}

\* receipt rows: extracted well; carrying an error message; in an error
\* status; with an empty error message; with nothing extracted; with an
\* empty merchant and amount 0; with a vendor only; with empty merchant and
\* vendor and no amount; with no status
ReceiptPool ==
    {ReceiptRow(NoneT, "extracted", <<"a", "b">>, NoneS, 20600, Iso(2024, 9, 25)),
     ReceiptRow("boom", "extracted", <<"a", "b">>, NoneS, 20600, Iso(2024, 9, 25)),
     ReceiptRow(NoneT, "error_docintel_analyze", <<"a", "b">>, NoneS, 20600, Iso(2024, 9, 25)),
     ReceiptRow("", "extracted_partial", <<"A", "c">>, NoneS, 20000, NoneDate),
     ReceiptRow(NoneT, "extracted_partial", NoneS, NoneS, None, NoneDate),
     ReceiptRow(NoneT, "extracted", <<>>, NoneS, 0, NoneDate),
     ReceiptRow(NoneT, "extracted", NoneS, <<"a", "-", "c">>, None, Iso(2024, 9, 26)),
     ReceiptRow(NoneT, "extracted", <<>>, <<>>, None, Iso(2024, 9, 24)),
     ReceiptRow(NoneT, "None", NoneS, NoneS, 20000, NoneDate)}

\* the sequences over S of length 0..n
ListsUpTo(S, n) == {<<>>} \cup SeqsUpTo(S, n)

\* lists of expense rows, no row twice (ids are a primary key)
ExpenseLists ==
    {es \in ListsUpTo(ExpensePool, MaxExpenseList) :
         \A i, j \in 1..Len(es) : i # j => es[i] # es[j]}

\* lists of receipt rows, the ids being 1, 2, ... in list order
ReceiptLists ==
    {[i \in 1..Len(rs) |-> [rs[i] EXCEPT !.id = i]] :
         rs \in ListsUpTo(ReceiptPool, MaxReceiptList)}

InitMatch ==
    /\ expenses = SeedExpenses(100)
    /\ expense_items = <<>>
    /\ receipts = {}
    /\ expense_receipts = {}
    /\ expense_reports = {}
    /\ report_expenses = {}
    /\ stored_files = {}
    /\ sessions = NoSessions
    /\ req = [op |-> "none", expense_id |-> None, strategy |-> ""]
    /\ resp = NoResp
    /\ trace = NoTrace
    /\ fn_call = NoFnCall
    /\ \E es \in ExpenseLists, rs \in ReceiptLists :
           match_call = [called |-> FALSE, expenses |-> es, receipts |-> rs,
                         proposals |-> <<>>]

NextMatch == ProposeMatches

SpecMatch == InitMatch /\ [][NextMatch]_vars

----------------------------------------------------------------------------
(* SpecScore: one call of score_match.  The pairs scored vary one          *)
(* component at a time: the amounts, the dates, the merchants.             *)

\* the days a receipt's dates lie from the expense's day, either way
MaxDayOffset == 3

ScoreReceipt(merchant, vendor, amount, date, start, end) ==
    [ReceiptRow(NoneT, "extracted", merchant, vendor, amount, date) EXCEPT
         !.extracted_service_start = start, !.extracted_service_end = end]

\* amounts in mills: none, 0, small ones, ones off the cent grid, negative
\* ones, and receipt amounts on both sides of the 0.50 and the 5% distances
ScoreExpAmounts == {None, 0, 400, 570, 15600, 20000, 20004, 0 - 20000}
ScoreRecAmounts ==
    {None, 0, 70, 900, 1070, 15100, 16100, 19000, 19010, 19400, 19500, 19990,
     20000, 20010, 20500, 20506, 20510, 20600, 21000, 21010, 0 - 19400, 0 - 20500}

AmountPairs ==
    {<<ExpenseRow(1, <<"a", "b">>, a, Iso(2024, 9, 15)),
       ScoreReceipt(<<"a", "b">>, NoneS, r, Iso(2024, 9, 15), NoneDate, NoneDate)>> :
         a \in ScoreExpAmounts, r \in ScoreRecAmounts}

\* the 15th of September 2024 and the days around it
Day(k) == Iso(2024, 9, 15 + k)
NearDays == {Day(k) : k \in (0 - MaxDayOffset)..MaxDayOffset}

ScoreExpDates ==
    {Day(0), NoneDate, GarbageDate, BlankDate,
     DateStr("dmy4", "/", 2024, 9, 15, ""), DateStr("ymd", "-", 2024, 9, 15, "space_time")}
ScoreSingleDates == {NoneDate, EmptyDate, GarbageDate} \cup NearDays
ScoreRangeDates == {NoneDate, GarbageDate} \cup NearDays

DatePairs ==
    {<<ExpenseRow(1, NoneS, None, d),
       ScoreReceipt(NoneS, NoneS, None, single, start, end)>> :
         d \in ScoreExpDates, single \in ScoreSingleDates,
         start \in ScoreRangeDates, end \in ScoreRangeDates}

\* merchants: none, empty, punctuation only, names
ScoreMerchants ==
    {NoneS, <<>>, <<"-">>, <<"a", "b">>, <<"A", "-", "b">>, <<"b", "c">>, <<"a", " ", "b", "c">>}

MerchantPairs ==
    {<<ExpenseRow(1, em, None, NoneDate),
       ScoreReceipt(rm, rv, None, NoneDate, NoneDate, NoneDate)>> :
         em \in ScoreMerchants, rm \in ScoreMerchants, rv \in ScoreMerchants}

ScorePairs == AmountPairs \cup DatePairs \cup MerchantPairs

NoScore == [total |-> Zero, rationale |-> Rationale(Zero, Zero, Zero,
                ScoreReceipt(NoneS, NoneS, None, NoneDate, NoneDate, NoneDate)),
            details |-> [merchant_score |-> Zero, amount_score |-> Zero,
                         date_score |-> Zero, weighted_total |-> Zero]]

\* a call of score_match on the pair at hand
ScoreMatch ==
    /\ fn_call.fn = "score_match"
    /\ ~fn_call.called
    /\ fn_call' = [fn_call EXCEPT !.called = TRUE,
                                  !.result = score_match(fn_call.expense, fn_call.receipt)]
    /\ UNCHANGED <<expenses, expense_items, receipts, expense_receipts, req, resp, trace,
                   match_call,
                   expense_reports, report_expenses, stored_files, sessions>>

InitScore ==
    /\ expenses = SeedExpenses(100)
    /\ expense_items = <<>>
    /\ receipts = {}
    /\ expense_receipts = {}
    /\ expense_reports = {}
    /\ report_expenses = {}
    /\ stored_files = {}
    /\ sessions = NoSessions
    /\ req = [op |-> "none", expense_id |-> None, strategy |-> ""]
    /\ resp = NoResp
    /\ trace = NoTrace
    /\ match_call = NoCall
    /\ \E pair \in ScorePairs :
           fn_call = [fn |-> "score_match", called |-> FALSE, expense |-> pair[1],
                      receipt |-> pair[2], result |-> NoScore]

NextScore == ScoreMatch

SpecScore == InitScore /\ [][NextScore]_vars

----------------------------------------------------------------------------
(* SpecNormalize: one call of normalize_merchant, for None and every       *)
(* string of up to MaxNameLen characters.                                  *)

MaxNameLen == 3

\* a lower-case letter, an upper-case letter, a digit, a space, punctuation
NameChars == {"a", "B", "1", " ", "-"}

Names == {NoneS} \cup ListsUpTo(NameChars, MaxNameLen)

\* a call of normalize_merchant on the name at hand
NormalizeMerchant ==
    /\ fn_call.fn = "normalize_merchant"
    /\ ~fn_call.called
    /\ fn_call' = [fn_call EXCEPT !.called = TRUE, !.result = normalize_merchant(fn_call.name)]
    /\ UNCHANGED <<expenses, expense_items, receipts, expense_receipts, req, resp, trace,
                   match_call,
                   expense_reports, report_expenses, stored_files, sessions>>

InitNormalize ==
    /\ expenses = SeedExpenses(100)
    /\ expense_items = <<>>
    /\ receipts = {}
    /\ expense_receipts = {}
    /\ expense_reports = {}
    /\ report_expenses = {}
    /\ stored_files = {}
    /\ sessions = NoSessions
    /\ req = [op |-> "none", expense_id |-> None, strategy |-> ""]
    /\ resp = NoResp
    /\ trace = NoTrace
    /\ match_call = NoCall
    /\ \E name \in Names :
           fn_call = [fn |-> "normalize_merchant", called |-> FALSE, name |-> name,
                      result |-> NoneS]

NextNormalize == NormalizeMerchant

SpecNormalize == InitNormalize /\ [][NextNormalize]_vars

----------------------------------------------------------------------------
(* SpecParseDate: one call of _parse_date, for day-first dates of every    *)
(* 2-digit year and for the other kinds of value it is given.              *)

Separators == {"-", "/", "."}

\* DD-MM-YY for every year 00..99
ShortYearDates ==
    {DateStr("dmy2", sep, yy, md[1], md[2], "") :
         sep \in Separators, yy \in 0..99, md \in {<<9, 24>>, <<2, 28>>, <<2, 29>>}}

\* the other values: None, "", white space, text, a number, 4-digit years
\* (below 100 too), a day that is none, times after the date
OtherDates ==
    {NoneDate, EmptyDate, BlankDate, GarbageDate, NumberDate}
    \cup {DateStr(layout, sep, y, 9, d, suffix) :
              layout \in {"ymd", "dmy4"}, sep \in Separators, y \in {75, 80, 2024},
              d \in {24, 31}, suffix \in {"", "space_time", "t_time"}}

DateValues == ShortYearDates \cup OtherDates

\* a call of _parse_date on the value at hand
CallParseDate ==
    /\ fn_call.fn = "_parse_date"
    /\ ~fn_call.called
    /\ fn_call' = [fn_call EXCEPT !.called = TRUE, !.result = ParseDate(fn_call.val)]
    /\ UNCHANGED <<expenses, expense_items, receipts, expense_receipts, req, resp, trace,
                   match_call,
                   expense_reports, report_expenses, stored_files, sessions>>

InitParseDate ==
    /\ expenses = SeedExpenses(100)
    /\ expense_items = <<>>
    /\ receipts = {}
    /\ expense_receipts = {}
    /\ expense_reports = {}
    /\ report_expenses = {}
    /\ stored_files = {}
    /\ sessions = NoSessions
    /\ req = [op |-> "none", expense_id |-> None, strategy |-> ""]
    /\ resp = NoResp
    /\ trace = NoTrace
    /\ match_call = NoCall
    /\ \E val \in DateValues :
           fn_call = [fn |-> "_parse_date", called |-> FALSE, val |-> val,
                      result |-> Parsed(None)]

NextParseDate == CallParseDate

SpecParseDate == InitParseDate /\ [][NextParseDate]_vars

----------------------------------------------------------------------------
(* SpecConcurrent: itemize requests of the Hotel expense of the seed, with *)
(* a receipt linked, served by several worker processes.                   *)

\* what the provider calls come to
ConcurrentOutcomes ==
    {RaisesSystemExit, Returned(EmptyText),
     Returned(Text("plain", ArrayBody(<<Debit(30), Debit(30), Debit(30)>>))),
     Returned(Text("plain", ArrayBody(<<Debit(40)>>)))}

InitConcurrent ==
    /\ expenses = SeedExpenses(100)
    /\ expense_items = <<>>
    /\ receipts = {1}
    /\ expense_receipts = {Mapping(HotelId, 1, 0)}
    /\ expense_reports = {}
    /\ report_expenses = {}
    /\ stored_files = {}
    /\ sessions = NoSessions
    /\ req = [op |-> "none", expense_id |-> None, strategy |-> ""]
    /\ resp = NoResp
    /\ trace = NoTrace
    /\ match_call = NoCall
    /\ fn_call = NoFnCall

NextConcurrent ==
    \/ \E s \in SessionIds, e \in {AirfareId, HotelId}, strategy \in {"auto", "rebuild"} :
           ItemizeBegin(s, e, strategy)
    \/ \E s \in SessionIds, outcome \in ConcurrentOutcomes : ItemizeInsert(s, outcome)
    \/ \E s \in SessionIds : ItemizeFinish(s)

SpecConcurrent == InitConcurrent /\ [][NextConcurrent]_vars

----------------------------------------------------------------------------
(* SpecDocIntel: one call of _analyze_with_docintel (services/             *)
(* extraction.py), a step per attempt of the analyze loop and per file,    *)
(* for every sequence of outcomes of the provider.                         *)

\* most files of a call
MaxFiles == 2

\* while attempt < 3
MaxAttempts == 3

\* what an attempt comes to: poller.result() returns the analysis, the
\* file is not found, an AzureError with or without one of the transient
\* phrases in its message, another exception
AttemptOutcomes ==
    {"result", "file_not_found", "azure_transient", "azure_error", "exception"}

\* a record of the result list: the file, its status, debug_fields.attempts
FileRecord(file, status, attempts) == [file |-> file, status |-> status, attempts |-> attempts]

\* (variant: a transient error is retried whatever the attempt)
IsTransient_AnyAttempt(outcome, attempt) == outcome = "azure_transient"

\* line 206: any(p in msg for p in transient_phrases) and attempt < 3
IsTransient(outcome, attempt) == outcome = "azure_transient" /\ attempt < MaxAttempts

\* lines 195-227: the status of the record an attempt that failed appends
ErrorStatus(outcome) ==
    CASE outcome = "file_not_found" -> "error_file_not_found"
      [] outcome \in {"azure_transient", "azure_error"} -> "error_docintel_analyze"
      [] OTHER -> "error_docintel_exception"

\* the call: the files 1..files, the file at hand, its attempts so far and
\* their outcomes, doc_result (set or not), the result list
DocIntelCall(client, files) ==
    [fn |-> "_analyze_with_docintel", called |-> FALSE, client |-> client, files |-> files,
     pc |-> "start", file |-> 0, attempt |-> 0, outcomes |-> <<>>, doc_result |-> FALSE,
     results |-> <<>>]

\* lines 118-131, 141-178: without a client every file gets a record of the
\* filename heuristic; with one, the loop over the files begins
DocIntelStart ==
    /\ fn_call.fn = "_analyze_with_docintel"
    /\ fn_call.pc = "start"
    /\ fn_call' =
           IF ~fn_call.client
           THEN [fn_call EXCEPT
                     !.pc = "returned", !.called = TRUE,
                     !.results = [i \in 1..fn_call.files |->
                                     FileRecord(i, "error_docintel_unavailable", 0)]]
           ELSE IF fn_call.files = 0
           THEN [fn_call EXCEPT !.pc = "returned", !.called = TRUE]
           ELSE [fn_call EXCEPT !.pc = "attempts", !.file = 1]
    /\ UNCHANGED <<expenses, expense_items, receipts, expense_receipts, expense_reports,
                   report_expenses, stored_files, sessions, req, resp, trace, match_call>>

\* lines 179-227: one pass of the body of the while loop
DocIntelAttempt(outcome) ==
    /\ fn_call.fn = "_analyze_with_docintel"
    /\ fn_call.pc = "attempts"
    /\ fn_call.attempt < MaxAttempts
    /\ LET attempt == fn_call.attempt + 1
           tried == [fn_call EXCEPT !.attempt = attempt, !.outcomes = Append(@, outcome)]
       IN  fn_call' =
               IF outcome = "result"
               THEN [tried EXCEPT !.doc_result = TRUE, !.pc = "after_loop"]
               ELSE IF IsTransient(outcome, attempt)
               THEN tried
               ELSE [tried EXCEPT
                         !.results = Append(@, FileRecord(fn_call.file, ErrorStatus(outcome),
                                                          attempt)),
                         !.doc_result = FALSE, !.pc = "after_loop"]
    /\ UNCHANGED <<expenses, expense_items, receipts, expense_receipts, expense_reports,
                   report_expenses, stored_files, sessions, req, resp, trace, match_call>>

\* lines 229-358: after the loop (left by break, or by its condition), the
\* file is skipped without a doc_result and gets its extracted record with
\* one; then the next file, or the return of the list
DocIntelAfterLoop ==
    /\ fn_call.fn = "_analyze_with_docintel"
    /\ \/ fn_call.pc = "after_loop"
       \/ fn_call.pc = "attempts" /\ fn_call.attempt >= MaxAttempts
    /\ LET results == IF fn_call.doc_result
                      THEN Append(fn_call.results,
                                  FileRecord(fn_call.file, "extracted", fn_call.attempt))
                      ELSE fn_call.results
       IN  fn_call' =
               IF fn_call.file < fn_call.files
               THEN [fn_call EXCEPT !.results = results, !.pc = "attempts", !.file = @ + 1,
                                    !.attempt = 0, !.outcomes = <<>>, !.doc_result = FALSE]
               ELSE [fn_call EXCEPT !.results = results, !.pc = "returned", !.called = TRUE]
    /\ UNCHANGED <<expenses, expense_items, receipts, expense_receipts, expense_reports,
                   report_expenses, stored_files, sessions, req, resp, trace, match_call>>

InitDocIntel ==
    /\ expenses = SeedExpenses(100)
    /\ expense_items = <<>>
    /\ receipts = {}
    /\ expense_receipts = {}
    /\ expense_reports = {}
    /\ report_expenses = {}
    /\ stored_files = {}
    /\ sessions = NoSessions
    /\ req = [op |-> "none", expense_id |-> None, strategy |-> ""]
    /\ resp = NoResp
    /\ trace = NoTrace
    /\ match_call = NoCall
    /\ \E client \in BOOLEAN, files \in 0..MaxFiles : fn_call = DocIntelCall(client, files)

NextDocIntel ==
    \/ DocIntelStart
    \/ \E outcome \in AttemptOutcomes : DocIntelAttempt(outcome)
    \/ DocIntelAfterLoop

SpecDocIntel == InitDocIntel /\ [][NextDocIntel]_vars

----------------------------------------------------------------------------
(* SpecTagged: the handlers that write table expenses and the reports, in  *)
(* any order, from the seed.                                               *)

\* most rows of table expenses, and of table expense_reports
MaxExpenses == 3
MaxReports == 2

TaggedValues == {None, 0, 1}

\* bulk requests: an update that leaves tagged out, one that sets it, inserts
\* with and without tagged, an entry that is no dict, an insert that lacks
\* columns
BulkLists ==
    {<<BulkItem(HotelId, "", 40, NoKey, FALSE)>>,
     <<BulkItem(AirfareId, "", None, 1, FALSE)>>,
     <<BulkItem(None, "Hotel", 40, NoKey, TRUE)>>,
     <<NotDictItem, BulkItem(GhostId, "Hotel", 40, 1, TRUE)>>,
     <<BulkItem(HotelId, "", None, None, FALSE), BulkItem(None, "", None, NoKey, FALSE)>>}

\* the expense_ids of report requests: ids of rows, an id twice, an id no
\* row has yet, an empty list, no list
ReportIds ==
    {NoExpenseIds, ExpenseIds(<<>>), ExpenseIds(<<AirfareId>>), ExpenseIds(<<HotelId, HotelId>>),
     ExpenseIds(<<AirfareId, HotelId + 1>>)}

InitTagged ==
    /\ expenses = SeedExpenses(100)
    /\ expense_items = <<>>
    /\ receipts = {}
    /\ expense_receipts = {}
    /\ expense_reports = {}
    /\ report_expenses = {}
    /\ stored_files = {}
    /\ sessions = NoSessions
    /\ req = [op |-> "none", expense_id |-> None, strategy |-> ""]
    /\ resp = NoResp
    /\ trace = NoTrace
    /\ match_call = NoCall
    /\ fn_call = NoFnCall

RoomFor(n) == Cardinality(DOMAIN expenses) + n <= MaxExpenses

NextTagged ==
    \/ \E tagged \in {0, 1} : RoomFor(1) /\ CreateExpense("Hotel", 40, tagged)
    \/ \E e \in DOMAIN expenses \cup {GhostId}, amount \in {None, 40}, tagged \in TaggedValues :
           UpdateExpense(e, amount, tagged)
    \/ \E e \in DOMAIN expenses \cup {GhostId} : RoomFor(1) /\ DuplicateExpense(e)
    \/ \E items \in BulkLists : RoomFor(Len(items)) /\ BulkUpsert(items)
    \/ \E expense_ids \in ReportIds :
           Cardinality(expense_reports) < MaxReports /\ CreateReport(expense_ids)

SpecTagged == InitTagged /\ [][NextTagged]_vars

----------------------------------------------------------------------------
(* Claims about the reconciler, under SpecReconcile *)

\* the last run was an itemize run that computed and persisted items
Computed ==
    /\ req.op = "itemize"
    /\ resp.outcome = "returned"
    /\ ~resp.reused
    /\ trace.norm # <<>>

\* the amounts of the rows the expense of the last request holds, in id order
FinalAmounts == AmountsOf(ItemsOf(expense_items, req.expense_id))

OnCentGrid(x) == x % Cent = 0

\* C1: after an itemize run that computed items from a non-empty list of
\* valid candidates, the persisted amounts of the expense sum to the expense
\* amount with no residual at 2 decimals: the sum is within half a cent of
\* the amount, and equals it exactly when the amount and the persisted
\* amounts are whole cents; the run returns the persisted rows.
C1_SumEqualsTotal ==
    Computed =>
        LET total == expenses[req.expense_id].amount
            sum == SumSeq(FinalAmounts)
        IN  /\ 2 * Abs(total - sum) <= Cent
            /\ (OnCentGrid(total) /\ \A i \in 1..Len(FinalAmounts) : OnCentGrid(FinalAmounts[i]))
                   => sum = total
            /\ AmountsOf(resp.items) = FinalAmounts

\* C1 witnesses: a run that scaled, and a run that did not scale and had its
\* last row corrected after the insert
C1_Witness ==
    /\ Computed
    /\ trace.scaled
    /\ Len(FinalAmounts) = 3
    /\ SumSeq(FinalAmounts) = expenses[req.expense_id].amount
    /\ SumSeq(trace.norm) # expenses[req.expense_id].amount

\* C2: drift correction changes only the last item: every other final amount
\* is its candidate amount times total/sum rounded to 2 decimals when the
\* run scaled, and its candidate amount as it was when the run did not; the
\* candidates 0.03, 0.03, 0.03 against 0.10 give 0.03, 0.03, 0.04.
C2_OnlyLastItemCorrected ==
    Computed =>
        LET total == trace.total
            norm == trace.norm
            sum_norm == SumSeq(norm)
        IN  /\ Len(FinalAmounts) = Len(norm)
            /\ \A i \in 1..(Len(norm) - 1) :
                   FinalAmounts[i] =
                       IF trace.scaled
                       THEN RoundHalfEven(norm[i] * total, sum_norm * Cent) * Cent
                       ELSE norm[i]
            /\ (norm = <<30, 30, 30>> /\ total = 100) => FinalAmounts = <<30, 30, 40>>

C2_Witness ==
    /\ Computed
    /\ trace.norm = <<30, 30, 30>>
    /\ trace.total = 100
    /\ FinalAmounts = <<30, 30, 40>>

\* C3 (as claimed): every line item an itemize run persists has amount > 0.
C3_PersistedAmountsPositive ==
    Computed => \A i \in 1..Len(FinalAmounts) : FinalAmounts[i] > 0

Present(val) == val.k \notin {"absent", "null", "emptystr"}
FirstPresent(a, b) == IF Present(a) THEN a ELSE b

\* the candidate is kept as C9 has it: the first present of debit, amount,
\* total is a number (or a numeric string) greater than 0
KeptAsClaimed(it) ==
    /\ it.isdict
    /\ LET amount == FirstPresent(FirstPresent(it.debit, it.amount), it.total)
       IN  amount.k \in {"num", "str"} /\ amount.v > 0

\* the array the provider of the last run returned
ParsedOfRun == ParsedItems(RawText(trace.provider))

\* C9 (as claimed): a candidate is kept exactly when the first PRESENT of
\* debit, amount, total is numeric and > 0; a candidate whose debit is
\* present and 0 is dropped whatever its amount or total.
C9_FirstPresentAmount ==
    (req.op = "itemize" /\ trace.provider.kind = "text" /\ Len(ParsedOfRun) = 1) =>
        (KeptAsClaimed(ParsedOfRun[1]) <=> trace.norm # <<>>)

\* the amounts an expense with no rows holds after the rows of these amounts
\* are inserted and the drift of the persisted sum is corrected
PersistedFrom(items, total) ==
    AmountsOf(PostInsertDrift(InsertItems(<<>>, 0, items), 0, total))

\* C25 (as claimed): the run scales exactly when the expense total is > 0,
\* the sum of the candidates is > 0 and their relative difference exceeds 1%;
\* then every candidate is multiplied by total/sum and rounded to 2 decimals,
\* and otherwise the candidates are inserted as they are, neither rescaled
\* nor rounded.
C25_ScaleExactlyAboveOnePercent ==
    Computed =>
        LET total == trace.total
            norm == trace.norm
            sum_candidates == SumSeq(norm)
            exceeds == /\ total > 0
                       /\ sum_candidates > 0
                       /\ 100 * Abs(sum_candidates - total) > total
        IN  /\ trace.scaled <=> exceeds
            /\ FinalAmounts =
                   PersistedFrom(IF exceeds THEN WithDrift(Scaled(norm, total), total)
                                 ELSE norm, total)

----------------------------------------------------------------------------
(* Claims about the itemize handler, under Spec *)

\* the step is a run of itemize for an expense that exists and is a Hotel
\* expense (the runs that get past the handler's 404 and 400)
ItemizeStep ==
    /\ req'.op = "itemize"
    /\ req'.expense_id \in DOMAIN expenses
    /\ Lower(expenses[req'.expense_id].category) = "hotel"

\* the rows of the step's expense before the step
RowsBefore == ItemsOf(expense_items, req'.expense_id)

IsPrefix(s, t) == Len(s) <= Len(t) /\ SubSeq(t, 1, Len(s)) = s

\* C5: a run discards existing rows only under strategy 'rebuild'; under any
\* other strategy an expense that has rows gets them back as they are with
\* reused = true, the provider is not called and the table is left as it was.
C5_ReuseUnlessRebuild ==
    [][ItemizeStep =>
          /\ req'.strategy # "rebuild"
                 => IsPrefix(RowsBefore, ItemsOf(expense_items', req'.expense_id))
          /\ (req'.strategy # "rebuild" /\ RowsBefore # <<>>)
                 => /\ resp' = Result(RowsBefore, TRUE, "", NoBody)
                    /\ trace'.provider = NotInvoked
                    /\ trace'.inserts = 0
                    /\ ~trace'.deleted
                    /\ expense_items' = expense_items]_vars

\* C5 witness: rows reused under a strategy that is neither 'auto' nor 'rebuild'
C5_Witness ==
    /\ req.op = "itemize"
    /\ req.strategy = "refresh"
    /\ resp.reused
    /\ Len(resp.items) = 3
    /\ resp.items = ItemsOf(expense_items, req.expense_id)

\* C6 (as claimed): however the provider call fails (empty text, an exception,
\* a timeout, an abort on a blob download or configuration failure), the
\* run returns a warning or error result with no items and raises nothing,
\* and inserts no row.
C6_ProviderFailureIsAResult ==
    (/\ req.op = "itemize"
     /\ \/ trace.provider.kind \in {"exception", "system_exit"}
        \/ trace.provider = Returned(EmptyText))
        => /\ resp.outcome = "returned"
           /\ resp.items = NoItems
           /\ (resp.warning # "" \/ resp.error # NoBody)
           /\ trace.inserts = 0

\* the text opens with '{' and holds "error" within its first 120 characters
EnvelopeShaped(text) ==
    text.layout = "plain" /\ text.body.t \in {"object", "broken_object"} /\ text.body.near

\* C7: a text that is envelope-shaped and parses to a mapping with a truthy
\* error flag makes the run return that payload as its error with no items,
\* no candidates and no write; an envelope-shaped text whose flag is falsy
\* or that does not parse is no error: it goes on to the parser, which finds
\* no array in it.
C7_ErrorEnvelope ==
    [][(ItemizeStep /\ trace'.provider.kind = "text" /\ EnvelopeShaped(trace'.provider.text))
          => LET body == trace'.provider.text.body
             IN  /\ expense_items' = expense_items
                 /\ trace'.norm = <<>>
                 /\ trace'.inserts = 0
                 /\ (body.t = "object" /\ body.err = "truthy")
                        => resp' = Result(NoItems, FALSE, "", body)
                 /\ ~(body.t = "object" /\ body.err = "truthy")
                        => resp' = Result(NoItems, FALSE, "No valid AOAI items", NoBody)]_vars

\* C7 witnesses: an error envelope returned over rows a rebuild would have
\* replaced
C7_Witness ==
    /\ req.op = "itemize"
    /\ req.strategy = "rebuild"
    /\ trace.provider = Returned(Text("plain", ObjectBody("truthy", TRUE)))
    /\ resp.error = ObjectBody("truthy", TRUE)
    /\ resp.items = NoItems
    /\ ItemsOf(expense_items, req.expense_id) # <<>>

\* no key of the element holds a number greater than 0
NoPositiveAmount(it) ==
    \/ ~it.isdict
    \/ \A val \in {it.debit, it.amount, it.total} : ~(val.k \in {"num", "str"} /\ val.v > 0)

\* no candidate can survive: the text is no JSON, its value is no array, the
\* array is empty, or no element holds a positive amount
NoCandidate(text) ==
    \/ text.layout = "fenced_inline"
    \/ text.body.t # "array"
    \/ \A i \in 1..Len(text.body.elems) : NoPositiveAmount(text.body.elems[i])

\* the run gets as far as its receipts: it does not reuse existing rows
ReachesReceipts == ~(RowsBefore # <<>> /\ req'.strategy # "rebuild")

\* C8: a run for an expense with no linked receipt returns the warning
\* "No receipts linked" with no items; a run whose provider text yields no
\* candidate (unparsable, no array, an empty array, every candidate dropped)
\* returns the warning "No valid AOAI items" with no items; neither raises,
\* neither inserts a row.
C8_NothingToItemize ==
    [][(ItemizeStep /\ ReachesReceipts)
          => /\ LinksOf(req'.expense_id) = {}
                    => /\ resp' = Result(NoItems, FALSE, "No receipts linked", NoBody)
                       /\ trace'.provider = NotInvoked
                       /\ trace'.inserts = 0
                       /\ expense_items' = expense_items
             /\ (/\ LinksOf(req'.expense_id) # {}
                 /\ trace'.provider.kind = "text"
                 /\ trace'.provider.text # EmptyText
                 /\ ~EnvelopeShaped(trace'.provider.text)
                 /\ NoCandidate(trace'.provider.text))
                    => /\ resp' = Result(NoItems, FALSE, "No valid AOAI items", NoBody)
                       /\ trace'.inserts = 0
                       /\ expense_items' = expense_items]_vars

\* C8 witness: the fenced empty array, for an expense with a linked receipt
C8_Witness ==
    /\ req.op = "itemize"
    /\ LinksOf(req.expense_id) # {}
    /\ trace.provider = Returned(Text("fenced_json", ArrayBody(<<>>)))
    /\ resp = Result(NoItems, FALSE, "No valid AOAI items", NoBody)

----------------------------------------------------------------------------
(* Claims about propose_matches, under SpecMatch *)

\* the receipt carries no error message and no error status, and has a
\* merchant, a vendor or an amount
Qualifying(r) ==
    /\ r.error_message \in {NoneT, ""}
    /\ r.status \notin ErrorStatuses
    /\ \/ r.extracted_merchant \notin {NoneS, <<>>}
       \/ r.extracted_vendor_name \notin {NoneS, <<>>}
       \/ r.extracted_amount # None

\* C10: propose_matches returns exactly one proposal for each qualifying
\* receipt when the expense list is non-empty, none for any other receipt,
\* and nothing for an empty expense list; the proposals are in the order of
\* the receipts, each naming an expense of the list.
C10_OneProposalPerQualifyingReceipt ==
    match_call.called =>
        LET qualifying == SelectSeq(match_call.receipts, Qualifying)
            proposals == match_call.proposals
        IN  IF match_call.expenses = <<>> THEN proposals = <<>>
            ELSE /\ Len(proposals) = Len(qualifying)
                 /\ \A i \in 1..Len(proposals) :
                        /\ proposals[i].receipt_id = qualifying[i].id
                        /\ \E j \in 1..Len(match_call.expenses) :
                               proposals[i].expense_id = match_call.expenses[j].id

\* C10 witness: of two receipts the first is skipped and the second, which
\* has a vendor name and neither merchant nor amount, gets the one proposal
C10_Witness ==
    /\ match_call.called
    /\ Len(match_call.expenses) = 2
    /\ Len(match_call.receipts) = 2
    /\ Len(match_call.proposals) = 1
    /\ match_call.proposals[1].receipt_id = 2
    /\ match_call.receipts[2].extracted_merchant = NoneS
    /\ match_call.receipts[2].extracted_amount = None

\* the receipt of the call that carries the id, and the place in the call's
\* expense list of the expense that carries the id
ReceiptWithId(id) == CHOOSE r \in {match_call.receipts[i] : i \in 1..Len(match_call.receipts)} : r.id = id
PlaceOfExpense(id) == CHOOSE k \in 1..Len(match_call.expenses) : match_call.expenses[k].id = id

\* C11: the expense a proposal names has the greatest score_match total of the
\* expense list for the proposal's receipt, every expense before it in the
\* list has a strictly smaller total, the proposal's score is that total
\* rounded to 4 decimals, and the proposal is the one the receipt gets when it
\* is the only receipt of the call.
C11_BestExpenseFirstOnTies ==
    match_call.called =>
        \A i \in 1..Len(match_call.proposals) :
            LET p == match_call.proposals[i]
                r == ReceiptWithId(p.receipt_id)
                es == match_call.expenses
                k == PlaceOfExpense(p.expense_id)
                best == score_match(es[k], r).total
            IN  /\ \A j \in 1..Len(es) : ~RatLess(best, score_match(es[j], r).total)
                /\ \A j \in 1..(k - 1) : RatLess(score_match(es[j], r).total, best)
                /\ p.score = RoundHalfEven(10000 * best.n, best.d)
                /\ propose_matches(es, <<r>>) = <<p>>

\* C11 witness: two expenses tie on the first receipt, the first of the list
\* (which is not the one of smaller id) is proposed, and the second receipt
\* proposes the same expense
C11_Witness ==
    /\ match_call.called
    /\ Len(match_call.expenses) = 2
    /\ Len(match_call.proposals) = 2
    /\ match_call.expenses[1].id > match_call.expenses[2].id
    /\ score_match(match_call.expenses[1], match_call.receipts[1]).total
           = score_match(match_call.expenses[2], match_call.receipts[1]).total
    /\ score_match(match_call.expenses[1], match_call.receipts[1]).total # Zero
    /\ match_call.proposals[1].expense_id = match_call.expenses[1].id
    /\ match_call.proposals[2].expense_id = match_call.expenses[1].id

----------------------------------------------------------------------------
(* Claims about score_match, under SpecScore *)

\* a call of score_match has returned
Scored == fn_call.fn = "score_match" /\ fn_call.called

\* the amounts of the call after round(float(a), 2), None staying None
ExpAmount == IF fn_call.expense.amount = None THEN None
             ELSE RoundHalfEven(fn_call.expense.amount, Cent) * Cent
RecAmount == IF fn_call.receipt.extracted_amount = None THEN None
             ELSE RoundHalfEven(fn_call.receipt.extracted_amount, Cent) * Cent

\* C12 (as claimed): the amount component is 0.0 when either normalized
\* amount is absent or the expense amount is 0; otherwise 1.0 when the
\* absolute difference is <= 0.5; otherwise max(0, 1 - (|e - r| / e) / 0.05).
C12_AmountComponent ==
    Scored =>
        LET s == fn_call.result.details.amount_score
            delta == Abs(ExpAmount - RecAmount)
        IN  IF ExpAmount = None \/ RecAmount = None \/ ExpAmount = 0 THEN s = Zero
            ELSE IF delta <= 500 THEN s = One
            ELSE IF ExpAmount > 0 /\ 20 * delta >= ExpAmount THEN s = Zero
            ELSE s.n * ExpAmount = s.d * (ExpAmount - 20 * delta)

\* C13 (as claimed): for a fixed expense amount a > 0 the amount component
\* is non-increasing in |a - receipt amount|: a receipt amount at least as
\* close to a as another scores at least as much.
C13_AmountMonotonic ==
    (Scored /\ fn_call.expense.amount # None /\ fn_call.expense.amount > 0
            /\ fn_call.receipt.extracted_amount # None) =>
        LET a == fn_call.expense.amount
            r1 == fn_call.receipt.extracted_amount
        IN  \A r2 \in ScoreRecAmounts \ {None} :
                Abs(a - r1) <= Abs(a - r2) =>
                    ~RatLess(fn_call.result.details.amount_score,
                             AmountScore(fn_call.expense,
                                         [fn_call.receipt EXCEPT !.extracted_amount = r2]))

\* the date string is a date of September 2024, in any of the layouts
\* _parse_date reads, and the day it names
IsDate(val) == val.layout \in {"ymd", "dmy4"} /\ val.y = 2024 /\ val.m = 9
                   /\ val.suffix \in {"", "space_time"}
Provided(val) == val.layout \notin {"none", "empty"}

\* the score of a distance in days: 1.0, 0.6, 0.3, 0.0
ByDistance(days) ==
    IF days = 0 THEN [n |-> 1, d |-> 1]
    ELSE IF days = 1 THEN [n |-> 3, d |-> 5]
    ELSE IF days = 2 THEN [n |-> 3, d |-> 10]
    ELSE [n |-> 0, d |-> 1]

\* C14: when the expense date parses and the receipt provides only a
\* parseable extracted_date (no service start, no service end), the date
\* component is 1.0 at day difference 0, 0.6 at 1 day, 0.3 at 2 days and 0.0
\* at 3 or more, whichever of the two dates is the earlier.
C14_SingleDate ==
    (/\ Scored
     /\ IsDate(fn_call.expense.date)
     /\ IsDate(fn_call.receipt.extracted_date)
     /\ ~Provided(fn_call.receipt.extracted_service_start)
     /\ ~Provided(fn_call.receipt.extracted_service_end))
        => fn_call.result.details.date_score
               = ByDistance(Abs(fn_call.receipt.extracted_date.d - fn_call.expense.date.d))

\* C14 witness: a receipt dated two days before an expense whose date is
\* written day first, scored 0.3
C14_Witness ==
    /\ Scored
    /\ fn_call.expense.date.layout = "dmy4"
    /\ fn_call.receipt.extracted_date = Iso(2024, 9, 13)
    /\ ~Provided(fn_call.receipt.extracted_service_start)
    /\ ~Provided(fn_call.receipt.extracted_service_end)
    /\ fn_call.result.details.date_score = [n |-> 3, d |-> 10]

\* C15 (as claimed): when the receipt provides parseable service start and
\* end, the date component is 1.0 if start <= expense date <= end, and
\* otherwise goes by the distance in days from the expense date to the
\* nearer of the two boundaries, for every pair of boundaries, start later
\* than end included.
C15_RangeNearerBoundary ==
    (/\ Scored
     /\ IsDate(fn_call.expense.date)
     /\ IsDate(fn_call.receipt.extracted_service_start)
     /\ IsDate(fn_call.receipt.extracted_service_end))
        => LET e == fn_call.expense.date.d
               start == fn_call.receipt.extracted_service_start.d
               end == fn_call.receipt.extracted_service_end.d
               nearer == IF Abs(e - start) <= Abs(e - end) THEN Abs(e - start)
                         ELSE Abs(e - end)
           IN  fn_call.result.details.date_score
                   = IF start <= e /\ e <= end THEN [n |-> 1, d |-> 1]
                     ELSE ByDistance(nearer)

\* C16 (as claimed): the range rule is used only when service start and end
\* are both present and parseable; in every other case a receipt with a
\* parseable extracted_date is scored by the single-date rule.
C16_SingleDateUnlessRangeParses ==
    (/\ Scored
     /\ IsDate(fn_call.expense.date)
     /\ IsDate(fn_call.receipt.extracted_date)
     /\ ~(IsDate(fn_call.receipt.extracted_service_start)
              /\ IsDate(fn_call.receipt.extracted_service_end)))
        => fn_call.result.details.date_score
               = ByDistance(Abs(fn_call.receipt.extracted_date.d - fn_call.expense.date.d))

\* the string is missing or empty
Missing(name) == name = NoneS \/ name = <<>>

\* the string is missing, or empty once normalized
MissingNormalized(name) == Missing(name) \/ normalize_merchant(name) = <<>>

\* C17: the merchant component compares the expense merchant with
\* extracted_merchant when that is present and with extracted_vendor_name
\* only when it is missing; it is 0.0 when the expense merchant or the chosen
\* receipt field is missing or empty after normalization, and 1.0 when the
\* two normalize to the same name; the rationale carries 'vendor_used'
\* exactly when a vendor name stands in for a missing merchant field.
C17_MerchantComponent ==
    Scored =>
        LET rm == fn_call.receipt.extracted_merchant
            rv == fn_call.receipt.extracted_vendor_name
            em == fn_call.expense.merchant
            chosen == IF Missing(rm) THEN rv ELSE rm
            score == fn_call.result.details.merchant_score
        IN  /\ (MissingNormalized(em) \/ MissingNormalized(chosen)) => score = Zero
            /\ ~(MissingNormalized(em) \/ MissingNormalized(chosen))
                   => /\ score = PartialRatio(normalize_merchant(chosen), normalize_merchant(em))
                      /\ normalize_merchant(chosen) = normalize_merchant(em) => score = One
            /\ fn_call.result.rationale.vendor_used <=> (Missing(rm) /\ ~Missing(rv))

\* C17 witness: an empty merchant field, the vendor name matching the
\* expense merchant up to case and punctuation
C17_Witness ==
    /\ Scored
    /\ fn_call.receipt.extracted_merchant = <<>>
    /\ fn_call.receipt.extracted_vendor_name = <<"A", "-", "b">>
    /\ fn_call.expense.merchant = <<"a", " ", "b", "c">>
    /\ fn_call.result.details.merchant_score = One
    /\ fn_call.result.rationale.vendor_used

\* C18: the total is 0.5 * merchant + 0.3 * amount + 0.2 * date, the weights
\* summing to 1.0: it is 1.0 when the three components are 1.0 and 0.0 when
\* they are 0.0.
C18_WeightedTotal ==
    Scored =>
        LET m == fn_call.result.details.merchant_score
            a == fn_call.result.details.amount_score
            d == fn_call.result.details.date_score
            total == fn_call.result.total
        IN  /\ 10 * total.n * m.d * a.d * d.d
                   = total.d * (5 * m.n * a.d * d.d + 3 * a.n * m.d * d.d + 2 * d.n * m.d * a.d)
            /\ fn_call.result.details.weighted_total = total
            /\ (m = One /\ a = One /\ d = One) => total = One
            /\ (m = Zero /\ a = Zero /\ d = Zero) => total = Zero

\* C18 witnesses: identical merchant, equal amount, same date
C18_Witness ==
    /\ Scored
    /\ fn_call.expense.amount = 20000
    /\ fn_call.result.details.merchant_score = One
    /\ fn_call.result.details.amount_score = One
    /\ fn_call.result.details.date_score = One
    /\ fn_call.result.total = One
    /\ fn_call.result.rationale
           = [merchant |-> 100, amount |-> 100, date |-> 100, range |-> FALSE, vendor_used |-> FALSE]

----------------------------------------------------------------------------
(* Claims about normalize_merchant and _parse_date *)

\* C19 (as claimed): normalize_merchant is idempotent for every input,
\* strings of only non-alphanumeric characters or white space included:
\* normalizing its result gives the result again.
C19_NormalizeIdempotent ==
    (fn_call.fn = "normalize_merchant" /\ fn_call.called)
        => normalize_merchant(fn_call.result) = fn_call.result

\* C20 (as claimed): a day-first date with a 2-digit year parses to the year
\* 20xx for 00-79 and 19xx for 80-99.
C20_TwoDigitYear ==
    (/\ fn_call.fn = "_parse_date"
     /\ fn_call.called
     /\ fn_call.val.layout = "dmy2"
     /\ fn_call.val.d <= 28)
        => LET year == IF fn_call.val.y <= 79 THEN 2000 + fn_call.val.y
                       ELSE 1900 + fn_call.val.y
           IN  fn_call.result = [raised |-> FALSE,
                                 day |-> Ordinal(year, fn_call.val.m, fn_call.val.d)]

\* the values that hold no date: None, a value that is no string, "", white
\* space, text that is no date, and a date of a day the calendar has not
Unparsable(val) ==
    \/ val.layout \in {"none", "number", "empty", "blank", "garbage"}
    \/ /\ val.layout \in {"ymd", "dmy4"}
       /\ ~ValidDate(val.y, val.m, val.d)

\* C21 (as claimed): _parse_date returns None and never raises for every
\* unparsable input (None, a non-string, "", white space only, text that is
\* no date), and it reads only the first white-space-delimited token: a time
\* after a space changes nothing of the result.
C21_ParseDateNeverRaises ==
    (fn_call.fn = "_parse_date" /\ fn_call.called)
        => /\ ~fn_call.result.raised
           /\ Unparsable(fn_call.val) => fn_call.result = Parsed(None)
           /\ fn_call.val.suffix = "space_time"
                  => fn_call.result = ParseDate([fn_call.val EXCEPT !.suffix = ""])

\* the step's run ended in a warning or an error result, with no items
WarningOrError(r) ==
    /\ r.outcome = "returned"
    /\ r.items = NoItems
    /\ r.warning # "" \/ r.error # NoBody

\* C28: an itemize run with strategy 'rebuild' that ends in a warning or an
\* error result (no receipts linked, an error envelope or an empty text from
\* the provider, no valid items) leaves the rows of the expense as they
\* were: its DELETE is not committed; the rows go only in a run that inserts
\* the newly computed ones.
C28_RebuildFailureKeepsItems ==
    [][(ItemizeStep /\ req'.strategy = "rebuild")
          => /\ WarningOrError(resp') =>
                    /\ trace'.deleted
                    /\ trace'.commits = 0
                    /\ expense_items' = expense_items
             /\ ItemsOf(expense_items', req'.expense_id) # RowsBefore =>
                    /\ trace'.inserts > 0
                    /\ trace'.commits > 0
      ]_vars

\* C28 witness: a rebuild of an expense with three rows got an error envelope
\* from the provider, and the three rows are there
C28_Witness ==
    /\ req.op = "itemize"
    /\ req.strategy = "rebuild"
    /\ trace.deleted
    /\ resp.error # NoBody
    /\ resp.items = NoItems
    /\ Len(ItemsOf(expense_items, req.expense_id)) = 3

\* C29 (as claimed): with amount updates (update_expense, bulk_upsert) and
\* itemize calls in any order, an itemize call that returns items, computed
\* or reused, returns amounts that sum to the amount the expense has then.
C29_ReturnedItemsSumToAmount ==
    (/\ req.op = "itemize"
     /\ resp.outcome = "returned"
     /\ resp.items # NoItems)
        => SumSeq(AmountsOf(resp.items)) = expenses[req.expense_id].amount

----------------------------------------------------------------------------
(* Claim about itemize runs in progress together, under SpecConcurrent *)

\* the run is between its read of the existing rows and its return
InProgress(s) == sessions[s].pc \in {"provider", "inserted"}

\* the run began on an expense with no rows and inserted its item set
InsertedOnEmpty(s) ==
    /\ sessions[s].pc \in {"inserted", "returned"}
    /\ ~sessions[s].had_items
    /\ sessions[s].inserts > 0

\* C23: no two itemize runs of the same expense interleave: while a run is
\* between its read of the existing rows and its return, no other run of
\* that expense is; so no two runs that began on an expense with no rows
\* both inserted an item set.
C23_NoInterleavedRuns ==
    \A s, t \in SessionIds :
        s # t /\ sessions[s].expense_id = sessions[t].expense_id =>
            /\ ~(InProgress(s) /\ InProgress(t))
            /\ ~(InsertedOnEmpty(s) /\ InsertedOnEmpty(t))

----------------------------------------------------------------------------
(* Claim about the upload of a receipt, under Spec *)

\* the step is an upload whose file went under UPLOAD_DIR
SavedLocally ==
    /\ req'.op = "upload_receipts"
    /\ \E f \in stored_files' \ stored_files : f.store = "local"

\* C26: when the blob upload of a receipt fails, the file is saved locally
\* and the request continues: it returns its result and the receipt has its
\* row in table receipts.
C26_BlobFailureContinues ==
    [][SavedLocally => resp'.outcome = "returned" /\ receipts' # receipts]_vars

----------------------------------------------------------------------------
(* Claim about the analyze loop, under SpecDocIntel *)

\* the files that have been through the loop
FilesDone ==
    IF fn_call.pc = "start" THEN 0
    ELSE IF fn_call.pc = "attempts" THEN fn_call.file - 1
    ELSE IF fn_call.pc = "after_loop" /\ fn_call.doc_result THEN fn_call.file - 1
    ELSE fn_call.file

\* C27: for each file the analyze loop makes at most 3 attempts; an attempt
\* is followed by another only when it failed with a transient Azure error
\* and was the first or the second; and whatever the attempts come to, the
\* file has exactly one record in the result list, an extracted one or an
\* error one, so the call returns one record per file, in file order.
C27_OneRecordPerFile ==
    fn_call.fn = "_analyze_with_docintel" =>
        /\ fn_call.attempt <= 3
        /\ Len(fn_call.outcomes) = fn_call.attempt
        /\ \A k \in 1..(fn_call.attempt - 1) :
               fn_call.outcomes[k] = "azure_transient" /\ k \in {1, 2}
        /\ fn_call.pc # "returned" /\ fn_call.client => Len(fn_call.results) = FilesDone
        /\ fn_call.pc = "returned" => Len(fn_call.results) = fn_call.files
        /\ \A i \in 1..Len(fn_call.results) :
               /\ fn_call.results[i].file = i
               /\ fn_call.results[i].attempts <= 3
               /\ fn_call.results[i].status = "extracted"
                      \/ StartsWithError(fn_call.results[i].status)

\* C27 witness: a call returned with the record of a file that failed three
\* times with a transient error and the record of one extracted at the third
\* attempt
C27_Witness ==
    /\ fn_call.fn = "_analyze_with_docintel"
    /\ fn_call.pc = "returned"
    /\ fn_call.results = <<FileRecord(1, "error_docintel_analyze", 3),
                           FileRecord(2, "extracted", 3)>>

----------------------------------------------------------------------------
(* Claim about the tagged flag, under SpecTagged *)

InAReport(e) == \E row \in report_expenses : row.expense_id = e

\* C22 (as claimed): after any sequence of expense create, update,
\* bulk-upsert, duplicate and report-creation requests, an expense is tagged
\* exactly when a report includes it.
C22_TaggedIffInReport ==
    \A e \in DOMAIN expenses : (expenses[e].tagged = 1) <=> InAReport(e)

----------------------------------------------------------------------------
(* Claim about confirm_matches, under Spec *)

\* the step is a confirm-matches request with a list of mappings
ConfirmStep == req'.op = "confirm_matches" /\ req'.mappings.islist

\* the entry carries both ids
Complete(m) == m.isdict /\ m.expense_id # None /\ m.receipt_id # None

\* the score of an entry: under 'match_score' if it has the key, else under
\* 'score', and 0.0 when that is absent or null
SubmittedScore(m) ==
    LET given == IF m.match_score # NoKey THEN m.match_score
                 ELSE IF m.score # NoKey THEN m.score ELSE None
    IN  IF given = None THEN 0 ELSE given

SamePair(a, b) == a.expense_id = b.expense_id /\ a.receipt_id = b.receipt_id

\* C24: table expense_receipts holds one row per (expense_id, receipt_id).  A
\* confirm-matches request leaves, for every pair one of its entries carries
\* with both ids, exactly one row, with the score of the last such entry
\* (under 'match_score', else under 'score', else 0.0), whether or not the
\* expense exists and whatever else the receipt is linked to; entries
\* without an id add nothing, and the rows of the other pairs stay as they
\* are.  So after any sequence of requests there is one row per submitted
\* pair, with the score of its most recent mapping.
C24_OneLinkRowPerPair ==
    [][ConfirmStep =>
          LET entries == req'.mappings.entries
              last(l) == CHOOSE i \in 1..Len(entries) :
                             /\ Complete(entries[i]) /\ SamePair(entries[i], l)
                             /\ \A j \in (i + 1)..Len(entries) :
                                    ~(Complete(entries[j]) /\ SamePair(entries[j], l))
              submitted(l) == \E i \in 1..Len(entries) :
                                  Complete(entries[i]) /\ SamePair(entries[i], l)
          IN  /\ \A i \in 1..Len(entries) :
                     Complete(entries[i]) =>
                         \E l \in expense_receipts' : SamePair(l, entries[i])
              /\ \A l \in expense_receipts' :
                     /\ \A k \in expense_receipts' : SamePair(k, l) => k = l
                     /\ IF submitted(l)
                        THEN l.match_score = SubmittedScore(entries[last(l)])
                        ELSE l \in expense_receipts
              /\ \A l \in expense_receipts : \E k \in expense_receipts' : SamePair(k, l)
      ]_vars

\* C24 witness: a receipt linked to both expenses of the seed and to an
\* expense of no row; the pair sent twice holds its later score, the mapping
\* without a score 0.0, the one with only 'score' that score
C24_Witness ==
    /\ req.op = "confirm_matches"
    /\ expense_receipts = {Mapping(HotelId, 1, 80), Mapping(AirfareId, 1, 0),
                           Mapping(GhostId, 1, 60)}
    /\ GhostId \notin DOMAIN expenses

----------------------------------------------------------------------------
(* Claim about the range of the scores, under SpecScore *)

\* 0 <= r <= 1
InUnit(r) == ~RatLess(r, Zero) /\ ~RatLess(One, r)

\* C30 (as claimed): for every pair of an expense and a receipt, those with
\* zero or negative amounts included, each component score_match returns
\* (merchant, amount, date) lies in [0, 1], and so does the total.
C30_ScoresInUnitInterval ==
    Scored =>
        /\ InUnit(fn_call.result.details.merchant_score)
        /\ InUnit(fn_call.result.details.amount_score)
        /\ InUnit(fn_call.result.details.date_score)
        /\ InUnit(fn_call.result.total)

====
